---------------------------- MODULE Spec2Model ----------------------------
(***************************************************************************)
(* Model of the code-scanner proof of concept: the lowdb-backed delivery   *)
(* queue (transport/queue.ts), the drain loop with retry and circuit       *)
(* breaker (transport/sender.ts) and the HID device watcher                *)
(* (devices/hidDiscovery.ts).                                              *)
(*                                                                         *)
(* Every asynchronous call is split at its awaits: the filesystem does its *)
(* work at one moment (FsRead, FsWrite), the JavaScript continuation runs  *)
(* at a later one, and continuations of different calls interleave freely. *)
(* Everything between two awaits is one atomic action.                     *)
(***************************************************************************)
EXTENDS Integers, Sequences, FiniteSets, TLC

VARIABLES
    \* ---- queue.json and the lowdb instance (queue.ts) ----
    fileExists,          \* queue.json is on disk
    file,                \* the events list stored in queue.json
    dbData,              \* db.data.events, the in-memory list of the process
    qpc,                 \* per caller: phase of its pending queue call
    qop,                 \* per caller: which queue function it is in
    qarg,                \* per caller: the entry passed to enqueueEvent
    qret,                \* per caller: value returned by the last call
    rd,                  \* per caller: what its db.read() got from the disk
    wq,                  \* writes handed to the file writer, oldest first
    \* ---- sender.ts ----
    running, circuitOpen, consecutiveFailures,
    spc,                 \* position of the interval callback
    event,               \* const event of the loop body
    attempt,             \* let attempt
    timerMs,             \* duration of the pending delay(ms), 0 when none
    \* ---- history of the sender (not program state) ----
    loops,               \* interval callbacks that are inside while (true)
    skipped,             \* a tick has found running set and returned
    waited,              \* duration of the delay that ended last in this
                         \* turn of while (true), 0 when none
    \* ---- history (not program state) ----
    nextId,              \* next fresh entry handed to enqueueEvent
    expect,              \* completed enqueues minus completed dequeues
    dequeued,            \* entries returned by completed dequeueEvent calls
    delivered,           \* entries the endpoint answered with 2xx
    obs,                 \* list seen by the last getFirstEvent/dequeueEvent
    obsExpect,           \* value of expect when obs was taken
    restarted,           \* the process was restarted and at most one call
                         \* has been made since
    faults,              \* store failures injected so far
    \* ---- hidDiscovery.ts ----
    isConnected, serialNumber,
    currentPath,
    savedDevices,        \* the device list last written to devices.json
    polls,               \* enumerations in flight, one per interval tick
    emitted,             \* events emitted on hidEmitter, oldest first
    \* ---- index.ts and HidReader.read (hidReader.ts) ----
    handles,             \* the HID.HID handles that are open
    readerDevice,        \* reader.device, the handle opened last
    currentDevice,       \* let currentDevice of index.ts
    \* ---- history of the watcher (not program state) ----
    overlaps,            \* events emitted while another enumeration was
                         \* in flight
    threw,               \* the enumeration of the poll that ended last threw
    saveCalls,           \* calls of saveDevice so far
    openFailed,          \* the reader.read(found) called last has thrown
    intervalId,          \* the poll interval is set (not null)
    hdConnected,         \* HidDevice: this.isConnected
    hdSerial,            \* HidDevice: this.serialNumber
    hdName,              \* HidDevice: this.deviceName
    hdEmitted,           \* events the HidDevice watcher has emitted
    hdSaved,             \* what saveDevice of HidDevice has written
    \* ---- hidParser.ts ----
    buffer,              \* let buffer, the accumulated bytes
    flushTimer,          \* let flushTimer holds a timer
    timers,              \* flush timeouts of hidParser.ts that are pending
    scans,               \* lines emitted as 'raw:scan', oldest first
    logged,              \* lines logged by the scan:raw listener of index.ts
    \* ---- history of the framer (not program state) ----
    fed,                 \* all bytes passed to parseHidData, in order
    flushed,             \* the flush timer has fired
    early,               \* data was fed after the flush timer had fired
    \* ---- HidReader (unnamed/part_008) ----
    rdOpen,              \* this.device holds an open handle
    rdBuffer,            \* this.buffer
    rdFlushTimer,        \* this.flushTimer holds a timer
    rdTimers,            \* flush timeouts of the reader that are pending
    rdRetries,           \* setTimeout(() => this.start(), ...) that are pending
    rdScans,             \* lines emitted as 'scan:raw', oldest first
    \* ---- history of the reader (not program state) ----
    rdFed,               \* all bytes passed to onData, in order
    rdJoined,            \* onData has appended retained bytes to a residual
                         \* whose timer was pending
    rdStopped,           \* stop() was the call made last
    rdHalted,            \* a listener has called stop() and none start() since
    \* ---- barCodeValidator.ts ----
    barcode,             \* the argument of the last validateBarCode call
    validated,           \* the 'code:validated' events that call emitted
    vthrew,              \* that call threw to its caller
    vcalled,             \* validateBarCode has been called
    upcE,                \* the argument of the call of expandUpcEtoUpcA
    upcA                 \* what that call returned

storeVars  == <<fileExists, file, dbData, qpc, qop, qarg, qret, rd, wq>>
senderVars == <<running, circuitOpen, consecutiveFailures, spc, event, attempt, timerMs,
               loops, skipped, waited>>
histVars   == <<nextId, expect, dequeued, delivered, obs, obsExpect, restarted, faults>>
hidVars    == <<isConnected, serialNumber, currentPath, savedDevices,
               polls, emitted, handles, readerDevice, currentDevice,
               overlaps, threw, saveCalls, openFailed, intervalId,
               hdConnected, hdSerial, hdName, hdEmitted, hdSaved>>
parserVars == <<buffer, flushTimer, timers, scans, logged, fed, flushed, early>>
readerVars == <<rdOpen, rdBuffer, rdFlushTimer, rdTimers, rdRetries, rdScans,
               rdFed, rdJoined, rdStopped, rdHalted>>
frameVars  == <<parserVars, readerVars>>
valVars    == <<barcode, validated, vthrew, vcalled, upcE, upcA>>
vars       == <<storeVars, senderVars, histVars, hidVars, frameVars, valVars>>

----------------------------------------------------------------------------
\* Bounds of the model.
MaxEntries == 3          \* entries handed to enqueueEvent
MaxFaults  == 1          \* store failures injected
MaxPolls   == 2          \* enumerations in flight at once
MaxEmitted == 4          \* length of the recorded event sequence

MaxDevices == 2          \* devices in one enumeration
MaxOverlaps == 2         \* overlapping emissions that are counted
MaxChunk   == 2          \* bytes in one chunk passed to parseHidData
MaxFed     == 4          \* bytes passed to parseHidData in all
MAX_BUFFER == 3          \* the buffer ceiling: 16 * 1024 in hidParser.ts,
                         \* scaled down so that the ceiling is reached
MaxEdits   == 1          \* digits of a sample code that are replaced
MaxLen     == 3          \* length of the free-form inputs of the validator
MaxPayload == 2          \* payload symbols of a raw-framed input
MaxRetries == 2          \* pending restart timeouts of the reader
MaxLoops   == 2          \* interval callbacks that are counted
MaxMfr     == 3          \* largest of the last three manufacturer/product
                         \* digits of a UPC-E input

\* Program constants (sender.ts).
MAX_RETRIES   == 3
CIRCUIT_PAUSE == 60000

Entries   == 1..MaxEntries
Undefined == 0           \* JavaScript undefined, for an entry
Callers   == {"app", "send"}

----------------------------------------------------------------------------
\* queue.ts: the pieces of init / enqueueEvent / getFirstEvent / dequeueEvent.

\* init(): db.read() replaces db.data by the parsed file when the file
\* exists and leaves it alone when there is none; db.data ||= { events: [] }.
InitData_NoReload(data, r) == data
InitData(data, r) == IF r.exists THEN r.events ELSE data

\* db.data.events.push(event)
Push(data, e) == Append(data, e)

\* db.data.events[0]
FirstOf_Last(data) == IF data = <<>> THEN Undefined ELSE data[Len(data)]
FirstOf(data) == IF data = <<>> THEN Undefined ELSE data[1]

\* db.data.events.shift(): the list that is left
Shifted_Pop(data) == IF data = <<>> THEN <<>> ELSE SubSeq(data, 1, Len(data) - 1)
Shifted(data) == IF data = <<>> THEN <<>> ELSE Tail(data)

\* db.write(): the serialized data is handed to the file writer, which
\* writes one file at a time in the order of the calls.
Written(q, data, c) == Append(q, [data |-> data, who |-> c])

NoRead == [exists |-> FALSE, events |-> <<>>]

----------------------------------------------------------------------------
\* sender.ts: decisions of the catch block.

\* if (consecutiveFailures >= MAX_RETRIES)
CircuitTrips_Late(cf) == cf > MAX_RETRIES
CircuitTrips(cf) == cf >= MAX_RETRIES

\* while (attempt < MAX_RETRIES)
MayAttempt(a) == a < MAX_RETRIES

\* Math.pow(2, attempt) * 1000
Backoff_Fixed(a) == 2000
Backoff(a) == (2 ^ a) * 1000

\* consecutiveFailures = 0 after the circuit pause
AfterPause_Kept(cf) == cf
AfterPause(cf) == 0


\* The next turn of while (true): the circuit test, then getFirstEvent(),
\* whose init() issues db.read(). co is circuitOpen at that point.
NextIter(co) ==
    IF co THEN [spc |-> "cooldown", timerMs |-> CIRCUIT_PAUSE,
                sq |-> "idle", so |-> "none"]
          ELSE [spc |-> "peek", timerMs |-> 0,
                sq |-> "rd", so |-> "getFirst"]

\* The test of the inner while with attempt = a: another axios.post, or
\* out of the inner loop and on to the next turn of the outer one.
Retry(a, co) ==
    IF MayAttempt(a) THEN [spc |-> "post", timerMs |-> 0,
                           sq |-> "idle", so |-> "none"]
                     ELSE NextIter(co)

\* The catch block: both counters go up, then circuit pause, backoff or
\* the end of the inner loop.
Catch_GiveUp(a, cf, co) ==
    IF MayAttempt(a)
        THEN [spc |-> "backoff", timerMs |-> Backoff(a),
              sq |-> "idle", so |-> "none", open |-> co]
    ELSE NextIter(co) @@ [open |-> co]
Catch(a, cf, co) ==
    IF CircuitTrips(cf)
        THEN [spc |-> "pause", timerMs |-> CIRCUIT_PAUSE,
              sq |-> "idle", so |-> "none", open |-> TRUE]
    ELSE IF MayAttempt(a)
        THEN [spc |-> "backoff", timerMs |-> Backoff(a),
              sq |-> "idle", so |-> "none", open |-> co]
    ELSE NextIter(co) @@ [open |-> co]

----------------------------------------------------------------------------
\* What a queue call does once its db.read() has returned.
OpData(c) == InitData(dbData, rd[c])

OpResult(c) ==
    CASE qop[c] = "enqueue" ->
            [data |-> Push(OpData(c), qarg[c]), ret |-> Undefined, writes |-> TRUE]
      [] qop[c] = "getFirst" ->
            [data |-> OpData(c), ret |-> FirstOf(OpData(c)), writes |-> FALSE]
      [] OTHER ->
            [data |-> Shifted(OpData(c)), ret |-> FirstOf(OpData(c)), writes |-> TRUE]

Remove(s, e) == SelectSeq(s, LAMBDA x : x # e)

----------------------------------------------------------------------------
\* hidDiscovery.ts: devices and the decisions of one poll.

NoSerial == "undefined"  \* serialNumber is undefined
VENDOR   == 1504         \* the vendorId listHidDevices is called with
PRODUCT  == "scanner"    \* the productName listHidDevices is called with

Device(v, p, s, path) == [vendorId |-> v, product |-> p, serialNumber |-> s, path |-> path]
NoDevice == Device(0, "", NoSerial, "")

DevicePool == {
    Device(VENDOR, PRODUCT, "A", "p1"),
    Device(VENDOR, PRODUCT, "B", "p2"),
    Device(VENDOR, PRODUCT, NoSerial, "p3"),
    Device(VENDOR, PRODUCT, "", "p4"),
    Device(VENDOR + 1, PRODUCT, "A", "p5") }

\* What HID.devicesAsync() can resolve to: up to MaxDevices distinct devices.
Enumerations ==
    UNION { { s \in [1..n -> DevicePool] : \A i, j \in 1..n : i # j => s[i] # s[j] }
            : n \in 0..MaxDevices }

\* device.vendorId === vendorId && device.product === productName
Matches(d) == d.vendorId = VENDOR /\ d.product = PRODUCT

\* devices.filter(...)
Filter(devs) == SelectSeq(devs, Matches)

\* The lists devices.filter(...) can yield, over all enumerations.
FilteredLists == { Filter(devs) : devs \in Enumerations }

\* filtered[0]
Found(f) == IF f = <<>> THEN NoDevice ELSE f[1]

\* JavaScript truthiness of a serial number: undefined and "" are falsy.
Truthy(s) == s # NoSerial /\ s # ""

\* if (!isConnected && serialNumber)
HasCachedSerial_Any(conn, s) == ~conn
HasCachedSerial(conn, s) == ~conn /\ Truthy(s)

\* if (found.serialNumber === serialNumber)
SameSerial_Any(d, s) == TRUE
SameSerial(d, s) == d.serialNumber = s

\* The serial kept by the disconnect branch ("Keep serialNumber").
SerialAfterDisconnect_Cleared(s) == NoSerial
SerialAfterDisconnect(s) == s

\* if (isConnected && !found)
IsDisconnect(conn, f) == conn /\ f = <<>>

\* if (!isConnected), the guard of the first-time branch
IsFirstConnect_Always(conn) == TRUE
IsFirstConnect(conn) == ~conn

Event(t, d) == [type |-> t, dev |-> d]

\* What the callback does with the filtered list f once the enumeration
\* has resolved: the new isConnected, currentPath and serialNumber, the
\* event it emits (none or one) and whether saveDevice is called.
Outcome(conn, sn, path, f) ==
    IF IsDisconnect(conn, f)
        THEN [conn |-> FALSE, path |-> "", serial |-> SerialAfterDisconnect(sn),
              ev |-> <<Event("device:disconnected", NoDevice)>>, save |-> FALSE]
    ELSE IF f = <<>>
        THEN [conn |-> conn, path |-> path, serial |-> sn,
              ev |-> <<>>, save |-> FALSE]
    ELSE IF HasCachedSerial(conn, sn) /\ SameSerial(Found(f), sn)
        THEN [conn |-> TRUE, path |-> Found(f).path, serial |-> sn,
              ev |-> <<Event("device:reconnect", Found(f))>>, save |-> FALSE]
    ELSE IF IsFirstConnect(conn)
        THEN [conn |-> TRUE, path |-> Found(f).path,
              serial |-> Found(f).serialNumber,
              ev |-> <<Event("device:connected", Found(f))>>, save |-> TRUE]
    ELSE [conn |-> conn, path |-> path, serial |-> sn,
          ev |-> <<>>, save |-> FALSE]

----------------------------------------------------------------------------
\* The class-based watcher: HidDevice.connect and Connection.setDeviceInfo.

NoName == "undefined"    \* deviceName is undefined

classVars == <<hdConnected, hdSerial, hdName, hdEmitted, hdSaved>>

\* setDeviceInfo(data): a field of data that is not undefined replaces the
\* stored one.
SetDeviceInfo(old, new, none) == IF new # none THEN new ELSE old

\* The callback of HidDevice.connect for the filtered list f: the poll's
\* device info is stored before the reconnect test.
HidDeviceOutcome(conn, sn, name, f) ==
    IF IsDisconnect(conn, f)
        THEN [conn |-> FALSE, serial |-> sn, name |-> name,
              ev |-> <<Event("device:disconnected", NoDevice)>>, save |-> FALSE]
    ELSE IF f = <<>>
        THEN [conn |-> conn, serial |-> sn, name |-> name,
              ev |-> <<>>, save |-> FALSE]
    ELSE LET sn1   == SetDeviceInfo(sn, Found(f).serialNumber, NoSerial)
             name1 == SetDeviceInfo(name, Found(f).product, NoName)
         IN IF HasCachedSerial(conn, sn1) /\ SameSerial(Found(f), sn1)
               THEN [conn |-> TRUE, serial |-> sn1, name |-> name1,
                     ev |-> <<Event("device:reconnect", Found(f))>>, save |-> FALSE]
            ELSE IF IsFirstConnect(conn)
               THEN [conn |-> TRUE, serial |-> Found(f).serialNumber, name |-> name1,
                     ev |-> <<Event("device:connected", Found(f))>>, save |-> TRUE]
            ELSE [conn |-> conn, serial |-> sn1, name |-> name1,
                  ev |-> <<>>, save |-> FALSE]

----------------------------------------------------------------------------
\* index.ts: the listeners of hidEmitter, and HidReader.read.

NoHandle == 0            \* null

\* cleanupDevice(device): closes the handle it is given, if any.
CleanupDevice(hs, dev) == hs \ {dev}

\* reader.read(found): new HID.HID(found.path) opens handle h, or throws
\* when the device cannot be opened.
ReaderRead(hs, h, opened) == IF opened THEN hs \cup {h} ELSE hs

\* The handle a new HID.HID(...) returns is a fresh one.
NewHandle(hs) == Cardinality(hs) + 1

\* fs.writeFileSync in saveDevice succeeds or throws (and is caught).
WriteResults(save) == IF save THEN BOOLEAN ELSE {FALSE}

\* The listeners of device:connected and device:reconnect call
\* reader.read(found).
CallsRead(ev) == ev # <<>> /\ ev[1].type # "device:disconnected"

\* new HID.HID(path) succeeds or throws, when an event calls reader.read.
OpenResults(ev) == IF CallsRead(ev) THEN BOOLEAN ELSE {TRUE}

\* The listener that runs inside hidEmitter.emit for the events ev:
\* cleanupDevice(currentDevice), then reader.read(found) for
\* device:connected and device:reconnect, currentDevice = null for
\* device:disconnected.
Listener(hs, rdev, cur, ev, h, opened) ==
    IF ev = <<>>
        THEN [handles |-> hs, reader |-> rdev, cur |-> cur]
    ELSE IF ev[1].type = "device:disconnected"
        THEN [handles |-> CleanupDevice(hs, cur), reader |-> rdev, cur |-> NoHandle]
    ELSE [handles |-> ReaderRead(CleanupDevice(hs, cur), h, opened),
          reader |-> IF opened THEN h ELSE rdev, cur |-> cur]

----------------------------------------------------------------------------
\* hidParser.ts: the line framer. A Buffer is a sequence of byte values; a
\* line is the sequence of its character codes, which for the bytes that
\* pass the filter (all below 0x80) are the byte values themselves.

CARRIAGE_RETURN       == 13
ASCII_PRINTABLE_START == 32
ASCII_PRINTABLE_END   == 126
NUL                   == 0

\* The byte values chunks are made of: NUL, CR, space, 'A', 'B', DEL.
Bytes == {NUL, CARRIAGE_RETURN, 32, 65, 66, 127}

Chunks == UNION { [1..n -> Bytes] : n \in 0..MaxChunk }

\* b === CARRIAGE_RETURN || (b >= ASCII_PRINTABLE_START && b <= ASCII_PRINTABLE_END)
Kept(b) ==
    b = CARRIAGE_RETURN \/ (b >= ASCII_PRINTABLE_START /\ b <= ASCII_PRINTABLE_END)

\* Array.from(data).filter(...)
CleanChunk(data) == SelectSeq(data, Kept)

\* Buffer.concat([buffer, clean])
Accumulate_Replace(buf, clean) == clean
Accumulate(buf, clean) == buf \o clean

\* buffer.slice(i) with i counted from 0: the bytes from position i + 1 on.
SliceFrom(buf, i) == SubSeq(buf, i + 1, Len(buf))

\* if (buffer.length > MAX_BUFFER) buffer = buffer.slice(buffer.length - MAX_BUFFER)
Cap_Oldest(buf) == IF Len(buf) > MAX_BUFFER THEN SubSeq(buf, 1, MAX_BUFFER) ELSE buf

Cap(buf) == IF Len(buf) > MAX_BUFFER THEN SliceFrom(buf, Len(buf) - MAX_BUFFER) ELSE buf

\* The characters String.prototype.trim removes that a byte can stand for.
IsSpace(c) == c \in {9, 10, 11, 12, 13, 32}

RECURSIVE TrimStart(_)
TrimStart(str) ==
    IF str # <<>> /\ IsSpace(Head(str)) THEN TrimStart(Tail(str)) ELSE str

RECURSIVE TrimEnd(_)
TrimEnd(str) ==
    IF str # <<>> /\ IsSpace(str[Len(str)])
        THEN TrimEnd(SubSeq(str, 1, Len(str) - 1)) ELSE str

\* raw.toString('utf8').replace(/\x00/g, '').trim()
CleanLine(raw) == TrimEnd(TrimStart(SelectSeq(raw, LAMBDA c : c # NUL)))

\* if (line.length)
Emits_Always(line) == TRUE
Emits(line) == line # <<>>

\* buffer.indexOf(CARRIAGE_RETURN), counted from 0; -1 when there is none.
IndexOfCR(buf) ==
    IF \E i \in 1..Len(buf) : buf[i] = CARRIAGE_RETURN
        THEN (CHOOSE i \in 1..Len(buf) :
                /\ buf[i] = CARRIAGE_RETURN
                /\ \A j \in 1..(i - 1) : buf[j] # CARRIAGE_RETURN) - 1
        ELSE -1

\* while (buffer.length > 0 && buffer[0] === CARRIAGE_RETURN) buffer = buffer.slice(1)
RECURSIVE StripLeadingCRs(_)
StripLeadingCRs(buf) ==
    IF buf # <<>> /\ Head(buf) = CARRIAGE_RETURN
        THEN StripLeadingCRs(SliceFrom(buf, 1)) ELSE buf

\* The while loop of processBuffer: lines are cut at the first CR until
\* there is none left.
RECURSIVE ExtractLines(_, _)
ExtractLines(buf, lines) ==
    LET crIndex == IndexOfCR(buf)
        line    == CleanLine(SubSeq(buf, 1, crIndex))
    IN IF crIndex >= 0
          THEN ExtractLines(SliceFrom(buf, crIndex + 1),
                            IF Emits(line) THEN Append(lines, line) ELSE lines)
          ELSE [buffer |-> buf, lines |-> lines]

\* processBuffer(): the buffer it leaves and the lines it emits.
ProcessBuffer(buf) == ExtractLines(StripLeadingCRs(Cap(buf)), <<>>)

\* The buffer forceFlushBuffer leaves behind.
AfterFlush_Kept(buf) == buf
AfterFlush(buf) == <<>>

\* forceFlushBuffer(): the buffer it leaves and the lines it emits.
ForceFlushBuffer(buf) ==
    LET line == CleanLine(StripLeadingCRs(buf))
    IN IF buf = <<>>
          THEN [buffer |-> buf, lines |-> <<>>]
          ELSE [buffer |-> AfterFlush(buf),
                lines |-> IF StripLeadingCRs(buf) # <<>> /\ Emits(line)
                             THEN <<line>> ELSE <<>>]

\* parseHidData(data) with the buffer buf and the timer state timer.
ParseHidData(buf, timer, data) ==
    LET clean == CleanChunk(data)
        r     == ProcessBuffer(Accumulate(buf, clean))
    IN IF clean = <<>>
          THEN [buffer |-> buf, timer |-> timer, lines |-> <<>>]
          ELSE [buffer |-> r.buffer, timer |-> r.buffer # <<>>, lines |-> r.lines]

\* if (flushTimer) { clearTimeout(flushTimer); ... }: the timeouts that are
\* left of n pending ones.
ClearTimer_Skip(timer, n) == n
ClearTimer(timer, n) == IF timer THEN n - 1 ELSE n

\* if (buffer.length > 0) flushTimer = setTimeout(...): the pending timeouts
\* after a call that leaves the buffer buf.
ArmTimer(buf, n) == IF buf # <<>> THEN n + 1 ELSE n

----------------------------------------------------------------------------
\* HidReader of unnamed/part_008: the framer as a class, with start and stop.

StripPrefix(str, p) ==
    IF Len(str) >= Len(p) /\ SubSeq(str, 1, Len(p)) = p
        THEN SubSeq(str, Len(p) + 1, Len(str)) ELSE str

StripSuffix(str, p) ==
    IF Len(str) >= Len(p) /\ SubSeq(str, Len(str) - Len(p) + 1, Len(str)) = p
        THEN SubSeq(str, 1, Len(str) - Len(p)) ELSE str

\* _cleanLine(raw): null bytes, whitespace, the prefixes "]E0" and "]C1", a
\* leading 'E' and a trailing 'd' are removed, then whitespace again.
ReaderCleanLine(raw) ==
    LET t1 == CleanLine(raw)
        t2 == StripPrefix(t1, <<93, 69, 48>>)
        t3 == StripPrefix(t2, <<93, 67, 49>>)
        t4 == StripPrefix(t3, <<69>>)
        t5 == StripSuffix(t4, <<100>>)
    IN TrimEnd(TrimStart(t5))

\* The while loop of _processBuffer.
RECURSIVE ReaderExtractLines(_, _)
ReaderExtractLines(buf, lines) ==
    LET idx  == IndexOfCR(buf)
        line == ReaderCleanLine(SubSeq(buf, 1, idx))
    IN IF idx # -1
          THEN ReaderExtractLines(SliceFrom(buf, idx + 1),
                                  IF line # <<>> THEN Append(lines, line) ELSE lines)
          ELSE [buffer |-> buf, lines |-> lines]

\* _processBuffer(): the lines, whether a flush timer is set, and the buffer
\* after the ceiling has been applied.
ReaderProcessBuffer(buf) ==
    LET r == ReaderExtractLines(buf, <<>>)
    IN [buffer |-> Cap(r.buffer), lines |-> r.lines, arm |-> r.buffer # <<>>]

\* The byte values the device sends: NUL, CR, 'A' and 'd'.
ReaderBytes == {NUL, CARRIAGE_RETURN, 65, 100}

ReaderChunks == UNION { [1..n -> ReaderBytes] : n \in 1..MaxChunk }

\* stop(): the buffer it leaves; the flush timer is not touched.
BufferAfterStop(open, buf) == IF open THEN <<>> ELSE buf

----------------------------------------------------------------------------
\* barCodeValidator.ts. A string is the sequence of its character codes.

IsDigit(c) == c >= 48 /\ c <= 57

\* /^\d+$/.test(input)
IsNumeric(str) == str # <<>> /\ \A i \in 1..Len(str) : IsDigit(str[i])

\* code.split('').map(Number), for a string of digits
DigitsOf(code) == [i \in 1..Len(code) |-> code[i] - 48]

\* Number(code.slice(-1)), for a string of digits
LastDigit(code) == code[Len(code)] - 48

\* digits.slice(0, -1)
BodyOf_All(digits) == digits
BodyOf(digits) == SubSeq(digits, 1, Len(digits) - 1)

\* weight = weight === 3 ? 1 : 3
NextWeight_Stuck(weight) == weight
NextWeight(weight) == IF weight = 3 THEN 1 ELSE 3

\* The for loop of computeEanUpcMod10, from i down to the first digit.
RECURSIVE WeightedSum(_, _, _, _)
WeightedSum(body, i, weight, sum) ==
    IF i < 1 THEN sum
    ELSE WeightedSum(body, i - 1, NextWeight(weight), sum + body[i] * weight)

\* computeEanUpcMod10(code)
ComputeEanUpcMod10(code) ==
    LET body == BodyOf(DigitsOf(code))
    IN (10 - (WeightedSum(body, Len(body), 3, 0) % 10)) % 10

\* computeEanUpcMod10(code) === Number(code.slice(-1))
CheckDigitOk(code) == ComputeEanUpcMod10(code) = LastDigit(code)

\* expandUpcEtoUpcA(upcE), for a string of eight characters
ExpandUpcEtoUpcA_Short(u) ==
    LET z == 48
    IN IF u[7] \in {48, 49, 50}
          THEN <<u[1], u[2], u[3], u[7], z, z, z, z, u[4], u[5], u[6], u[8]>>
       ELSE IF u[7] = 51
          THEN <<u[1], u[2], u[3], u[4], z, z, z, z, u[5], u[6], u[8]>>
       ELSE IF u[7] = 52
          THEN <<u[1], u[2], u[3], u[4], u[5], z, z, z, z, z, u[6], u[8]>>
       ELSE <<u[1], u[2], u[3], u[4], u[5], u[6], z, z, z, z, u[7], u[8]>>
ExpandUpcEtoUpcA(u) ==
    LET z == 48
    IN IF u[7] \in {48, 49, 50}
          THEN <<u[1], u[2], u[3], u[7], z, z, z, z, u[4], u[5], u[6], u[8]>>
       ELSE IF u[7] = 51
          THEN <<u[1], u[2], u[3], u[4], z, z, z, z, z, u[5], u[6], u[8]>>
       ELSE IF u[7] = 52
          THEN <<u[1], u[2], u[3], u[4], u[5], z, z, z, z, z, u[6], u[8]>>
       ELSE <<u[1], u[2], u[3], u[4], u[5], u[6], z, z, z, z, u[7], u[8]>>

\* areCharsInRange(text, minCode, maxCode)
AreCharsInRange(text, minCode, maxCode) ==
    \A i \in 1..Len(text) : text[i] >= minCode /\ text[i] <= maxCode

\* detectSymbology(input)
DetectSymbology_EanFirst(input) ==
    LET isNumeric == IsNumeric(input)
        len       == Len(input)
    IN IF isNumeric /\ len = 13 THEN "EAN-13"
       ELSE IF isNumeric /\ len = 12 THEN "UPC-A"
       ELSE IF isNumeric /\ len = 8
          THEN IF CheckDigitOk(input) THEN "EAN-8"
               ELSE IF input[1] \in {48, 49} /\ CheckDigitOk(ExpandUpcEtoUpcA(input))
                  THEN "UPC-E"
               ELSE "Code128-C"
       ELSE IF isNumeric /\ len % 2 = 0 THEN "Code128-C"
       ELSE IF AreCharsInRange(input, 32, 95) THEN "Code128-A"
       ELSE IF AreCharsInRange(input, 32, 126) THEN "Code128-B"
       ELSE "UNKNOWN"
DetectSymbology(input) ==
    LET isNumeric == IsNumeric(input)
        len       == Len(input)
    IN IF isNumeric /\ len = 13 THEN "EAN-13"
       ELSE IF isNumeric /\ len = 12 THEN "UPC-A"
       ELSE IF isNumeric /\ len = 8
          THEN IF input[1] \in {48, 49} /\ CheckDigitOk(ExpandUpcEtoUpcA(input))
                  THEN "UPC-E"
               ELSE IF CheckDigitOk(input) THEN "EAN-8"
               ELSE "Code128-C"
       ELSE IF isNumeric /\ len % 2 = 0 THEN "Code128-C"
       ELSE IF AreCharsInRange(input, 32, 95) THEN "Code128-A"
       ELSE IF AreCharsInRange(input, 32, 126) THEN "Code128-B"
       ELSE "UNKNOWN"

\* validateKeyboardSet(input, set)
ValidateKeyboardSet_Upper(input, set) ==
    IF set = "A" THEN AreCharsInRange(input, 32, 95)
    ELSE IF set = "B" THEN AreCharsInRange(input, 32, 95)
    ELSE IsNumeric(input) /\ Len(input) % 2 = 0
ValidateKeyboardSet(input, set) ==
    IF set = "A" THEN AreCharsInRange(input, 32, 95)
    ELSE IF set = "B" THEN AreCharsInRange(input, 32, 126)
    ELSE IsNumeric(input) /\ Len(input) % 2 = 0

\* isRawCode128Payload(input): the legacy glyphs are 'Ì' 'Ë' 'Í' and 'Î'.
IsRawCode128Payload(input) ==
    /\ Len(input) >= 4
    /\ \/ input[1] \in {204, 203, 205} /\ input[Len(input)] = 206
       \/ input[1] \in {103, 104, 105} /\ input[Len(input)] = 106

NoValue == -1            \* null

\* mapCharToCode128Value(ch, table): the tables CODE128_A and CODE128_B map
\* the characters 32..127 to 0..95, and so does the fallback.
MapCharToCode128Value(ch) ==
    IF ch >= 32 /\ ch <= 127 THEN ch - 32 ELSE NoValue

\* The summing loop of validateRawAB; NoValue when a symbol has no value.
RECURSIVE SumAB(_, _, _, _)
SumAB(chars, i, weight, sum) ==
    IF i > Len(chars) THEN sum
    ELSE IF MapCharToCode128Value(chars[i]) = NoValue THEN NoValue
    ELSE SumAB(chars, i + 1, weight + 1,
               sum + MapCharToCode128Value(chars[i]) * weight)

\* validateRawAB(payload, table, startValue), for a payload of four or more
\* characters that starts with the character of code startValue.
ValidateRawAB(payload, startValue) ==
    LET checksumChar == payload[Len(payload) - 1]
        payloadChars == SubSeq(payload, 2, Len(payload) - 2)
        expected     == MapCharToCode128Value(checksumChar)
        sum          == SumAB(payloadChars, 1, 1, startValue)
    IN /\ expected # NoValue
       /\ sum # NoValue
       /\ sum % 103 = expected

\* The summing loop of validateRawC over pairs of digits.
RECURSIVE SumC(_, _, _, _)
SumC(chars, i, weight, sum) ==
    IF i > Len(chars) THEN sum
    ELSE IF i + 1 > Len(chars) THEN NoValue
    ELSE IF ~(IsDigit(chars[i]) /\ IsDigit(chars[i + 1])) THEN NoValue
    ELSE SumC(chars, i + 2, weight + 1,
              sum + ((chars[i] - 48) * 10 + (chars[i + 1] - 48)) * weight)

\* validateRawC(payload): a single checksum character is no key of
\* CODE128_C, so its value is charCodeAt(0) - 32.
ValidateRawC(payload) ==
    LET checksumChar == payload[Len(payload) - 1]
        payloadChars == SubSeq(payload, 2, Len(payload) - 2)
        expected     == checksumChar - 32
        sum          == SumC(payloadChars, 1, 1, 105)
    IN /\ sum # NoValue
       /\ sum % 103 = expected

NoError == "undefined"   \* error stays undefined

Verdict(d, v, t) == [simbology |-> d, valid |-> v, thrown |-> t]

\* The try block of validateBarCode: the symbology and the validity it
\* arrives at, or the message of the Error it throws.
TryValidate(b) ==
    LET detected == DetectSymbology(b)
    IN IF IsRawCode128Payload(b)
          THEN IF b[1] = 103 THEN Verdict("Code128-A", ValidateRawAB(b, 103), NoError)
               ELSE IF b[1] = 104 THEN Verdict("Code128-B", ValidateRawAB(b, 104), NoError)
               ELSE IF b[1] = 105 THEN Verdict("Code128-C", ValidateRawC(b), NoError)
               ELSE Verdict(detected, FALSE, "Unrecognized Code128 RAW start code")
       ELSE IF detected \in {"EAN-13", "EAN-8", "UPC-A"}
          THEN Verdict(detected, CheckDigitOk(b), NoError)
       ELSE IF detected = "UPC-E"
          THEN Verdict(detected, CheckDigitOk(ExpandUpcEtoUpcA(b)), NoError)
       ELSE IF detected = "Code128-A"
          THEN Verdict(detected, ValidateKeyboardSet(b, "A"), NoError)
       ELSE IF detected = "Code128-B"
          THEN Verdict(detected, ValidateKeyboardSet(b, "B"), NoError)
       ELSE IF detected = "Code128-C"
          THEN Verdict(detected, ValidateKeyboardSet(b, "C"), NoError)
       ELSE Verdict(detected, FALSE, "Unsupported barcode format")

\* The catch block and the emit that follows it: an Error thrown in the try
\* block becomes error, with valid = false, and the event is emitted.
AfterTry_Rethrow(b, r) ==
    IF r.thrown # NoError
        THEN [events |-> <<>>, threw |-> TRUE]
        ELSE [events |-> <<[barcode |-> b, simbology |-> r.simbology,
                            valid |-> r.valid, error |-> NoError]>>,
              threw |-> FALSE]
AfterTry(b, r) ==
    [events |-> <<[barcode |-> b, simbology |-> r.simbology,
                   valid |-> IF r.thrown # NoError THEN FALSE ELSE r.valid,
                   error |-> r.thrown]>>,
     threw |-> FALSE]

\* validateBarCode(barcodeData)
ValidateBarCode(b) == AfterTry(b, TryValidate(b))

\* The inputs validateBarCode is called with.
Str(ds) == [i \in 1..Len(ds) |-> ds[i] + 48]

\* Sample codes: EAN-13, UPC-A, EAN-8 and UPC-E.
SampleCodes == {
    <<4, 0, 0, 6, 3, 8, 1, 3, 3, 3, 9, 3, 1>>,
    <<9, 7, 8, 0, 3, 0, 6, 4, 0, 6, 1, 5, 7>>,
    <<0, 3, 6, 0, 0, 0, 2, 9, 1, 4, 5, 2>>,
    <<0, 1, 2, 3, 4, 5, 6, 7, 8, 9, 0, 5>>,
    <<7, 3, 5, 1, 3, 5, 3, 7>>,
    <<9, 6, 3, 8, 5, 0, 7, 4>>,
    <<0, 1, 2, 3, 4, 5, 6, 5>>,
    <<1, 2, 3, 4, 5, 6, 7, 0>> }

\* The digit strings that differ from a sample code in at most k digits.
RECURSIVE EditedBy(_)
EditedBy(k) ==
    IF k = 0 THEN SampleCodes
    ELSE EditedBy(k - 1) \cup
         UNION { { [ds EXCEPT ![p] = d] : p \in 1..Len(ds), d \in 0..9 }
                 : ds \in EditedBy(k - 1) }

NumericInputs == { Str(ds) : ds \in EditedBy(MaxEdits) }

\* Free-form inputs: ']', 'A', 'B', 'C', '1', '2', 'a', '~' and a character
\* beyond ASCII.
CharPool == {93, 65, 66, 67, 49, 50, 97, 126, 200}

TextInputs == UNION { [1..n -> CharPool] : n \in 0..MaxLen }

\* Raw-framed inputs: a start symbol, payload symbols, a checksum symbol
\* and a stop symbol.
FramedInputs ==
    { <<s>> \o pl \o <<c, e>> :
        s \in {103, 104, 105, 204},
        pl \in UNION { [1..n -> {49, 50, 65, 200}] : n \in 0..MaxPayload },
        c \in 32..135,
        e \in {106, 206} }

Inputs == NumericInputs \cup TextInputs \cup FramedInputs

\* The arguments expandUpcEtoUpcA is called with: a number-system digit 0
\* or 1, five manufacturer/product digits, an expansion digit and a check
\* digit.
UpcEInputs ==
    { Str(<<ns, m1, m2, m3, m4, m5, exp, chk>>) :
        ns \in {0, 1}, m1 \in {0, 7}, m2 \in {0, 7}, m3 \in 0..MaxMfr,
        m4 \in 0..MaxMfr, m5 \in 0..MaxMfr, exp \in 0..9, chk \in {0, 9} }

----------------------------------------------------------------------------
\* The state after the modules are loaded: no queue.json yet, the lowdb
\* default { events: [] }, the sender and the watcher not yet ticking.
Init ==
    /\ fileExists = FALSE
    /\ file = <<>>
    /\ dbData = <<>>
    /\ qpc = [c \in Callers |-> "idle"]
    /\ qop = [c \in Callers |-> "none"]
    /\ qarg = [c \in Callers |-> Undefined]
    /\ qret = [c \in Callers |-> Undefined]
    /\ rd = [c \in Callers |-> NoRead]
    /\ wq = <<>>
    /\ running = FALSE
    /\ loops = 0
    /\ skipped = FALSE
    /\ waited = 0
    /\ circuitOpen = FALSE
    /\ consecutiveFailures = 0
    /\ spc = "idle"
    /\ event = Undefined
    /\ attempt = 0
    /\ timerMs = 0
    /\ nextId = 1
    /\ expect = <<>>
    /\ dequeued = {}
    /\ delivered = {}
    /\ obs = <<>>
    /\ obsExpect = <<>>
    /\ restarted = FALSE
    /\ faults = 0
    /\ isConnected = FALSE
    /\ serialNumber = NoSerial
    /\ currentPath = ""
    /\ savedDevices = <<>>
    /\ polls = 0
    /\ emitted = <<>>
    /\ handles = {}
    /\ readerDevice = NoHandle
    /\ currentDevice = NoHandle
    /\ overlaps = 0
    /\ threw = FALSE
    /\ saveCalls = 0
    /\ openFailed = FALSE
    /\ intervalId = TRUE
    /\ hdConnected = FALSE
    /\ hdSerial = NoSerial
    /\ hdName = NoName
    /\ hdEmitted = <<>>
    /\ hdSaved = <<>>
    /\ buffer = <<>>
    /\ flushTimer = FALSE
    /\ scans = <<>>
    /\ fed = <<>>
    /\ logged = <<>>
    /\ timers = 0
    /\ rdOpen = FALSE
    /\ rdBuffer = <<>>
    /\ rdFlushTimer = FALSE
    /\ rdTimers = 0
    /\ rdRetries = 0
    /\ rdScans = <<>>
    /\ rdFed = <<>>
    /\ rdJoined = FALSE
    /\ rdStopped = FALSE
    /\ rdHalted = FALSE
    /\ flushed = FALSE
    /\ early = FALSE
    /\ barcode = <<>>
    /\ validated = <<>>
    /\ vthrew = FALSE
    /\ vcalled = FALSE
    /\ upcE = <<>>
    /\ upcA = <<>>

----------------------------------------------------------------------------
\* The filesystem.

\* The readFile behind a db.read() takes the file as it is now.
FsRead(c) ==
    /\ qpc[c] = "rd"
    /\ rd' = [rd EXCEPT ![c] = [exists |-> fileExists, events |-> file]]
    /\ qpc' = [qpc EXCEPT ![c] = "rdDone"]
    /\ UNCHANGED <<fileExists, file, dbData, qop, qarg, qret, wq>>
    /\ UNCHANGED <<senderVars, histVars, hidVars, frameVars, valVars>>

\* The oldest pending write replaces queue.json (temporary file, rename).
FsWrite ==
    /\ wq # <<>>
    /\ fileExists' = TRUE
    /\ file' = Head(wq).data
    /\ qpc' = [qpc EXCEPT ![Head(wq).who] = "wrDone"]
    /\ wq' = Tail(wq)
    /\ UNCHANGED <<dbData, qop, qarg, qret, rd>>
    /\ UNCHANGED <<senderVars, histVars, hidVars, frameVars, valVars>>

----------------------------------------------------------------------------
\* The application side of queue.ts.

\* enqueueEvent(event) is called with a fresh entry: init() issues db.read().
EnqueueCall ==
    /\ qpc["app"] = "idle"
    /\ nextId <= MaxEntries
    /\ qop' = [qop EXCEPT !["app"] = "enqueue"]
    /\ qarg' = [qarg EXCEPT !["app"] = nextId]
    /\ qpc' = [qpc EXCEPT !["app"] = "rd"]
    /\ nextId' = nextId + 1
    /\ restarted' = (restarted /\ qop["app"] = "none")
    /\ UNCHANGED <<fileExists, file, dbData, qret, rd, wq>>
    /\ UNCHANGED <<expect, dequeued, delivered, obs, obsExpect, faults>>
    /\ UNCHANGED <<senderVars, hidVars, frameVars, valVars>>

\* getFirstEvent() is called by the application.
GetFirstCall ==
    /\ qpc["app"] = "idle"
    /\ qop' = [qop EXCEPT !["app"] = "getFirst"]
    /\ qpc' = [qpc EXCEPT !["app"] = "rd"]
    /\ restarted' = (restarted /\ qop["app"] = "none")
    /\ UNCHANGED <<fileExists, file, dbData, qarg, qret, rd, wq>>
    /\ UNCHANGED <<nextId, expect, dequeued, delivered, obs, obsExpect, faults>>
    /\ UNCHANGED <<senderVars, hidVars, frameVars, valVars>>

\* dequeueEvent() is called by the application.
DequeueCall ==
    /\ qpc["app"] = "idle"
    /\ qop' = [qop EXCEPT !["app"] = "dequeue"]
    /\ qpc' = [qpc EXCEPT !["app"] = "rd"]
    /\ restarted' = (restarted /\ qop["app"] = "none")
    /\ UNCHANGED <<fileExists, file, dbData, qarg, qret, rd, wq>>
    /\ UNCHANGED <<nextId, expect, dequeued, delivered, obs, obsExpect, faults>>
    /\ UNCHANGED <<senderVars, hidVars, frameVars, valVars>>

\* The application's call resumes after await init(): push / [0] / shift,
\* then db.write() for the two that change the list.
AppReadDone ==
    /\ qpc["app"] = "rdDone"
    /\ LET r == OpResult("app") IN
        /\ dbData' = r.data
        /\ qret' = [qret EXCEPT !["app"] = r.ret]
        /\ wq' = IF r.writes THEN Written(wq, r.data, "app") ELSE wq
        /\ qpc' = [qpc EXCEPT !["app"] = IF r.writes THEN "wr" ELSE "idle"]
        /\ obs' = IF qop["app"] = "enqueue" THEN obs ELSE OpData("app")
        /\ obsExpect' = IF qop["app"] = "enqueue" THEN obsExpect ELSE expect
    /\ UNCHANGED <<fileExists, file, qop, qarg, rd>>
    /\ UNCHANGED <<nextId, expect, dequeued, delivered, restarted, faults>>
    /\ UNCHANGED <<senderVars, hidVars, frameVars, valVars>>

\* The application's call resumes after await db.write() and returns.
AppWriteDone ==
    /\ qpc["app"] = "wrDone"
    /\ qpc' = [qpc EXCEPT !["app"] = "idle"]
    /\ IF qop["app"] = "enqueue"
          THEN /\ expect' = IF qarg["app"] \in dequeued THEN expect
                                                        ELSE Append(expect, qarg["app"])
               /\ UNCHANGED dequeued
          ELSE /\ expect' = Remove(expect, qret["app"])
               /\ dequeued' = dequeued \cup ({qret["app"]} \ {Undefined})
    /\ UNCHANGED <<fileExists, file, dbData, qop, qarg, qret, rd, wq>>
    /\ UNCHANGED <<nextId, delivered, obs, obsExpect, restarted, faults>>
    /\ UNCHANGED <<senderVars, hidVars, frameVars, valVars>>

\* The process is restarted between calls: the module state of queue.ts is
\* rebuilt (db.data is the default again), queue.json stays.
Restart ==
    /\ \A c \in Callers : qpc[c] = "idle"
    /\ wq = <<>>
    /\ spc = "idle"
    /\ dbData' = <<>>
    /\ qop' = [c \in Callers |-> "none"]
    /\ qarg' = [c \in Callers |-> Undefined]
    /\ qret' = [c \in Callers |-> Undefined]
    /\ rd' = [c \in Callers |-> NoRead]
    /\ restarted' = TRUE
    /\ obs' = <<>>
    /\ obsExpect' = <<>>
    /\ UNCHANGED <<fileExists, file, qpc, wq>>
    /\ UNCHANGED <<nextId, expect, dequeued, delivered, faults>>
    /\ UNCHANGED <<senderVars, hidVars, frameVars, valVars>>

----------------------------------------------------------------------------
\* sender.ts: the callback of setInterval(..., 1000), cut at its awaits.

SenderGoes(n) ==
    /\ spc' = n.spc
    /\ timerMs' = n.timerMs
    /\ qpc' = [qpc EXCEPT !["send"] = n.sq]
    /\ qop' = [qop EXCEPT !["send"] = n.so]

\* event and attempt are local to one turn of while (true).
InTurn(n) == n.spc \notin {"peek", "cooldown", "idle"}

\* if (running) return;
Busy_Never(r) == FALSE
Busy(r) == r

\* An interval tick: return when a loop is running, else start one.
Tick ==
    /\ IF Busy(running)
          THEN /\ skipped' = TRUE
               /\ UNCHANGED <<running, circuitOpen, consecutiveFailures, spc,
                              event, attempt, timerMs, loops, waited>>
               /\ UNCHANGED storeVars
          ELSE /\ running' = TRUE
               /\ loops' = IF loops < MaxLoops THEN loops + 1 ELSE loops
               /\ SenderGoes(NextIter(circuitOpen))
               /\ UNCHANGED <<circuitOpen, consecutiveFailures, event, attempt>>
               /\ UNCHANGED <<skipped, waited>>
               /\ UNCHANGED <<fileExists, file, dbData, qarg, qret, rd, wq>>
    /\ UNCHANGED <<histVars, hidVars, frameVars, valVars>>

\* await getFirstEvent() returns: break on an empty queue, else the first
\* axios.post of the entry is issued.
PeekDone ==
    /\ qpc["send"] = "rdDone"
    /\ qop["send"] = "getFirst"
    /\ LET r == OpResult("send")
           n == IF r.ret = Undefined
                   THEN [spc |-> "idle", timerMs |-> 0, sq |-> "idle", so |-> "none"]
                   ELSE Retry(0, circuitOpen)
       IN /\ dbData' = r.data
          /\ qret' = [qret EXCEPT !["send"] = r.ret]
          /\ obs' = OpData("send")
          /\ obsExpect' = expect
          /\ running' = (r.ret # Undefined)
          /\ loops' = IF r.ret = Undefined THEN loops - 1 ELSE loops
          /\ waited' = 0
          /\ UNCHANGED skipped
          /\ event' = IF InTurn(n) THEN r.ret ELSE Undefined
          /\ attempt' = 0
          /\ SenderGoes(n)
    /\ UNCHANGED <<fileExists, file, qarg, rd, wq>>
    /\ UNCHANGED <<circuitOpen, consecutiveFailures>>
    /\ UNCHANGED <<nextId, expect, dequeued, delivered, restarted, faults>>
    /\ UNCHANGED <<hidVars, frameVars, valVars>>

\* axios.post resolves (2xx): dequeueEvent() is called, its init() issues
\* db.read().
PostOk ==
    /\ spc = "post"
    /\ delivered' = delivered \cup {event}
    /\ SenderGoes([spc |-> "dequeue", timerMs |-> 0, sq |-> "rd", so |-> "dequeue"])
    /\ UNCHANGED <<fileExists, file, dbData, qarg, qret, rd, wq>>
    /\ UNCHANGED <<running, circuitOpen, consecutiveFailures, event, attempt>>
    /\ UNCHANGED <<loops, skipped, waited>>
    /\ UNCHANGED <<nextId, expect, dequeued, obs, obsExpect, restarted, faults>>
    /\ UNCHANGED <<hidVars, frameVars, valVars>>

\* What the catch block leaves behind.
Caught ==
    LET a  == attempt + 1
        cf == consecutiveFailures + 1
        n  == Catch(a, cf, circuitOpen)
    IN /\ attempt' = IF InTurn(n) THEN a ELSE 0
       /\ consecutiveFailures' = cf
       /\ circuitOpen' = n.open
       /\ event' = IF InTurn(n) THEN event ELSE Undefined
       /\ SenderGoes(n)

\* axios.post rejects: a network error, the 5 s timeout or a status that is
\* not 2xx all land in the catch block.
PostFail ==
    /\ spc = "post"
    /\ Caught
    /\ UNCHANGED <<fileExists, file, dbData, qarg, qret, rd, wq>>
    /\ UNCHANGED <<running, loops, skipped, waited>>
    /\ UNCHANGED <<histVars, hidVars, frameVars, valVars>>

\* The backoff delay is over: the inner while tests attempt again.
BackoffDone ==
    /\ spc = "backoff"
    /\ LET n == Retry(attempt, circuitOpen)
       IN /\ SenderGoes(n)
          /\ event' = IF InTurn(n) THEN event ELSE Undefined
          /\ attempt' = IF InTurn(n) THEN attempt ELSE 0
    /\ UNCHANGED <<fileExists, file, dbData, qarg, qret, rd, wq>>
    /\ waited' = timerMs
    /\ UNCHANGED <<running, circuitOpen, consecutiveFailures, loops, skipped>>
    /\ UNCHANGED <<histVars, hidVars, frameVars, valVars>>

\* delay(CIRCUIT_PAUSE) is over. In the catch block the circuit closes and
\* the counters are reset; at the top of the loop the turn is started again.
PauseDone ==
    /\ spc \in {"pause", "cooldown"}
    /\ IF spc = "pause"
          THEN LET n == Retry(0, FALSE)
               IN /\ circuitOpen' = FALSE
                  /\ consecutiveFailures' = AfterPause(consecutiveFailures)
                  /\ attempt' = 0
                  /\ event' = IF InTurn(n) THEN event ELSE Undefined
                  /\ SenderGoes(n)
          ELSE /\ SenderGoes(NextIter(circuitOpen))
               /\ UNCHANGED <<circuitOpen, consecutiveFailures, attempt, event>>
    /\ waited' = timerMs
    /\ UNCHANGED <<fileExists, file, dbData, qarg, qret, rd, wq>>
    /\ UNCHANGED <<running, loops, skipped>>
    /\ UNCHANGED <<histVars, hidVars, frameVars, valVars>>

\* dequeueEvent() resumes after await init(): shift, then db.write().
DequeueRead ==
    /\ qpc["send"] = "rdDone"
    /\ qop["send"] = "dequeue"
    /\ LET r == OpResult("send")
       IN /\ dbData' = r.data
          /\ qret' = [qret EXCEPT !["send"] = r.ret]
          /\ wq' = Written(wq, r.data, "send")
          /\ obs' = OpData("send")
          /\ obsExpect' = expect
    /\ qpc' = [qpc EXCEPT !["send"] = "wr"]
    /\ UNCHANGED <<fileExists, file, qop, qarg, rd>>
    /\ UNCHANGED senderVars
    /\ UNCHANGED <<nextId, expect, dequeued, delivered, restarted, faults>>
    /\ UNCHANGED <<hidVars, frameVars, valVars>>

\* await dequeueEvent() returns: the failure counter is reset, break, and
\* the next turn of while (true) begins.
DequeueDone ==
    /\ qpc["send"] = "wrDone"
    /\ consecutiveFailures' = 0
    /\ event' = Undefined
    /\ attempt' = 0
    /\ SenderGoes(NextIter(circuitOpen))
    /\ expect' = Remove(expect, qret["send"])
    /\ dequeued' = dequeued \cup ({qret["send"]} \ {Undefined})
    /\ UNCHANGED <<fileExists, file, dbData, qarg, qret, rd, wq>>
    /\ UNCHANGED <<running, circuitOpen, loops, skipped, waited>>
    /\ UNCHANGED <<nextId, delivered, obs, obsExpect, restarted, faults>>
    /\ UNCHANGED <<hidVars, frameVars, valVars>>

----------------------------------------------------------------------------
\* The producer pipeline and the drain loop share queue.json. The pipeline
\* hands its entries to enqueueEvent one at a time; the drain loop runs
\* beside it on its own timer.
Next ==
    \/ \E c \in Callers : FsRead(c)
    \/ FsWrite
    \/ EnqueueCall
    \/ AppReadDone
    \/ AppWriteDone
    \/ Tick
    \/ PeekDone
    \/ PostOk
    \/ PostFail
    \/ BackoffDone
    \/ PauseDone
    \/ DequeueRead
    \/ DequeueDone

Spec == Init /\ [][Next]_vars

----------------------------------------------------------------------------
\* Store failures: a db.read() or db.write() that rejects.

FsReadFail(c) ==
    /\ qpc[c] = "rd"
    /\ faults < MaxFaults
    /\ faults' = faults + 1
    /\ qpc' = [qpc EXCEPT ![c] = "rdErr"]
    /\ UNCHANGED <<fileExists, file, dbData, qop, qarg, qret, rd, wq>>
    /\ UNCHANGED <<nextId, expect, dequeued, delivered, obs, obsExpect, restarted>>
    /\ UNCHANGED <<senderVars, hidVars, frameVars, valVars>>

FsWriteFail ==
    /\ wq # <<>>
    /\ faults < MaxFaults
    /\ faults' = faults + 1
    /\ qpc' = [qpc EXCEPT ![Head(wq).who] = "wrErr"]
    /\ wq' = Tail(wq)
    /\ UNCHANGED <<fileExists, file, dbData, qop, qarg, qret, rd>>
    /\ UNCHANGED <<nextId, expect, dequeued, delivered, obs, obsExpect, restarted>>
    /\ UNCHANGED <<senderVars, hidVars, frameVars, valVars>>

\* enqueueEvent rejects to its caller.
AppFailed ==
    /\ qpc["app"] \in {"rdErr", "wrErr"}
    /\ qpc' = [qpc EXCEPT !["app"] = "idle"]
    /\ UNCHANGED <<fileExists, file, dbData, qop, qarg, qret, rd, wq>>
    /\ UNCHANGED <<senderVars, histVars, hidVars, frameVars, valVars>>

\* A queue call of the sender rejects. dequeueEvent() is inside the try, so
\* its rejection lands in the catch block like a failed POST.
\* getFirstEvent() is outside of it: the rejection leaves the interval
\* callback, which ends there with running still true.
SenderStoreFailed ==
    /\ qpc["send"] \in {"rdErr", "wrErr"}
    /\ IF qop["send"] = "getFirst"
          THEN /\ SenderGoes([spc |-> "rejected", timerMs |-> 0,
                              sq |-> "idle", so |-> "none"])
               /\ UNCHANGED <<circuitOpen, consecutiveFailures, event, attempt>>
               /\ loops' = loops - 1
          ELSE Caught /\ UNCHANGED loops
    /\ UNCHANGED <<fileExists, file, dbData, qarg, qret, rd, wq>>
    /\ UNCHANGED <<running, skipped, waited>>
    /\ UNCHANGED <<histVars, hidVars, frameVars, valVars>>

FaultNext ==
    \/ Next
    \/ \E c \in Callers : FsReadFail(c)
    \/ FsWriteFail
    \/ AppFailed
    \/ SenderStoreFailed

FaultSpec == Init /\ [][FaultNext]_vars

----------------------------------------------------------------------------
\* queue.ts alone, its functions called one after the other, with restarts
\* of the process in between.
SeqNext ==
    \/ FsRead("app")
    \/ FsWrite
    \/ EnqueueCall
    \/ GetFirstCall
    \/ DequeueCall
    \/ AppReadDone
    \/ AppWriteDone
    \/ Restart

SeqSpec == Init /\ [][SeqNext]_vars

----------------------------------------------------------------------------
\* The drain loop under fair scheduling: pending timers fire, pending file
\* operations and continuations run, and an endpoint that is asked again
\* and again answers 2xx at some point.
Fairness ==
    /\ \A c \in Callers : WF_vars(FsRead(c))
    /\ WF_vars(FsWrite)
    /\ WF_vars(AppReadDone)
    /\ WF_vars(AppWriteDone)
    /\ WF_vars(Tick /\ ~running)
    /\ WF_vars(PeekDone)
    /\ SF_vars(PostOk)
    /\ WF_vars(BackoffDone)
    /\ WF_vars(PauseDone)
    /\ WF_vars(DequeueRead)
    /\ WF_vars(DequeueDone)

FairSpec == Spec /\ Fairness

----------------------------------------------------------------------------
\* hidDiscovery.ts: the callback of setInterval(..., 1000).

\* An interval tick: HID.devicesAsync() is called.
PollTick ==
    /\ intervalId
    /\ polls < MaxPolls
    /\ polls' = polls + 1
    /\ UNCHANGED <<isConnected, serialNumber, currentPath, savedDevices, emitted>>
    /\ UNCHANGED <<handles, readerDevice, currentDevice, overlaps, threw, saveCalls,
                   openFailed, intervalId>>
    /\ UNCHANGED classVars
    /\ UNCHANGED <<storeVars, senderVars, histVars, frameVars, valVars>>

\* The enumeration rejects: the error is logged and the callback returns.
PollThrow ==
    /\ polls > 0
    /\ polls' = polls - 1
    /\ threw' = TRUE
    /\ UNCHANGED <<isConnected, serialNumber, currentPath, savedDevices, emitted>>
    /\ UNCHANGED <<handles, readerDevice, currentDevice, overlaps, saveCalls,
                   openFailed, intervalId>>
    /\ UNCHANGED classVars
    /\ UNCHANGED <<storeVars, senderVars, histVars, frameVars, valVars>>

\* The enumeration resolves and is filtered to f: then the three branches; the
\* listener of the emitted event runs inside emit. The list filtered is
\* assigned before it is read in every callback and does not leave it, so
\* it is the f of this action. saveDevice catches its
\* own write error, so devices.json may stay as it was.
PollResolved(f) ==
    LET o == Outcome(isConnected, serialNumber, currentPath, f)
    IN \E saved \in WriteResults(o.save), opened \in OpenResults(o.ev) :
       LET l == Listener(handles, readerDevice, currentDevice, o.ev,
                         NewHandle(handles), opened)
       IN
       /\ isConnected' = o.conn
       /\ currentPath' = o.path
       /\ serialNumber' = o.serial
       /\ savedDevices' = IF o.save /\ saved THEN f ELSE savedDevices
       /\ saveCalls' = IF o.save THEN saveCalls + 1 ELSE saveCalls
       /\ openFailed' = IF CallsRead(o.ev) THEN ~opened ELSE openFailed
       /\ emitted' = emitted \o o.ev
       /\ overlaps' = IF o.ev # <<>> /\ polls > 1 /\ overlaps < MaxOverlaps
                          THEN overlaps + 1 ELSE overlaps
       /\ handles' = l.handles
       /\ readerDevice' = l.reader
       /\ currentDevice' = l.cur

PollDone ==
    /\ polls > 0
    /\ Len(emitted) < MaxEmitted
    /\ polls' = polls - 1
    /\ threw' = FALSE
    /\ \E f \in FilteredLists : PollResolved(f)
    /\ UNCHANGED intervalId
    /\ UNCHANGED classVars
    /\ UNCHANGED <<storeVars, senderVars, histVars, frameVars, valVars>>

HidNext ==
    \/ PollTick
    \/ PollThrow
    \/ PollDone

HidSpec == Init /\ [][HidNext]_vars

\* The watcher with its interval timer: ticks keep coming and a pending
\* enumeration settles.
HidFairSpec == HidSpec /\ WF_vars(PollTick) /\ WF_vars(PollDone)

\* The cancel function listHidDevices returns is called: clearInterval and
\* intervalId = null when the interval is set. A callback that is awaiting
\* the enumeration is not touched.
CancelWatch ==
    /\ intervalId
    /\ intervalId' = FALSE
    /\ UNCHANGED <<isConnected, serialNumber, currentPath, savedDevices, emitted, polls>>
    /\ UNCHANGED <<handles, readerDevice, currentDevice, overlaps, threw, saveCalls,
                   openFailed>>
    /\ UNCHANGED classVars
    /\ UNCHANGED <<storeVars, senderVars, histVars, frameVars, valVars>>

CancelNext ==
    \/ HidNext
    \/ CancelWatch

CancelSpec == Init /\ [][CancelNext]_vars

\* The callback of HidDevice.connect once its enumeration has resolved to
\* the filtered list f; its saveDevice catches its own write error.
HidDeviceResolved(f) ==
    LET o == HidDeviceOutcome(hdConnected, hdSerial, hdName, f)
    IN \E saved \in WriteResults(o.save) :
       /\ hdConnected' = o.conn
       /\ hdSerial' = o.serial
       /\ hdName' = o.name
       /\ hdEmitted' = hdEmitted \o o.ev
       /\ hdSaved' = IF o.save /\ saved THEN f ELSE hdSaved

\* Both watchers poll side by side and their enumerations resolve to the
\* same devices: the callback of listHidDevices and the callback of
\* HidDevice.connect each run on the list f.
BothPollDone ==
    /\ polls > 0
    /\ Len(emitted) < MaxEmitted
    /\ polls' = polls - 1
    /\ threw' = FALSE
    /\ \E f \in FilteredLists : PollResolved(f) /\ HidDeviceResolved(f)
    /\ UNCHANGED intervalId
    /\ UNCHANGED <<storeVars, senderVars, histVars, frameVars, valVars>>

ClassNext ==
    \/ PollTick
    \/ PollThrow
    \/ BothPollDone

ClassSpec == Init /\ [][ClassNext]_vars

----------------------------------------------------------------------------
\* hidParser.ts: the calls of parseHidData and the flush timer.

\* reader.on('scan:raw', ...) of index.ts, run for each emitted line: the
\* line is logged, and nothing else is done with it.
OnScanRaw(log, lines) == log \o lines

\* parseHidData(data) is called with the next chunk of the stream.
Feed ==
    \E data \in Chunks :
        /\ Len(fed) + Len(data) <= MaxFed
        /\ LET r == ParseHidData(buffer, flushTimer, data)
           IN /\ buffer' = r.buffer
              /\ flushTimer' = r.timer
              /\ timers' = IF CleanChunk(data) = <<>> THEN timers
                           ELSE ArmTimer(r.buffer, ClearTimer(flushTimer, timers))
              /\ scans' = scans \o r.lines
              /\ logged' = OnScanRaw(logged, r.lines)
        /\ fed' = fed \o data
        /\ early' = (early \/ (flushed /\ data # <<>>))
        /\ UNCHANGED flushed
        /\ UNCHANGED readerVars
        /\ UNCHANGED <<storeVars, senderVars, histVars, hidVars, valVars>>

\* A flush timeout fires: forceFlushBuffer(), flushTimer = undefined.
FlushFire ==
    /\ timers > 0
    /\ timers' = timers - 1
    /\ LET r == ForceFlushBuffer(buffer)
       IN /\ buffer' = r.buffer
          /\ scans' = scans \o r.lines
          /\ logged' = OnScanRaw(logged, r.lines)
    /\ flushTimer' = FALSE
    /\ flushed' = TRUE
    /\ UNCHANGED <<fed, early>>
    /\ UNCHANGED readerVars
    /\ UNCHANGED <<storeVars, senderVars, histVars, hidVars, valVars>>

FrameNext ==
    \/ Feed
    \/ FlushFire

FrameSpec == Init /\ [][FrameNext]_vars

\* The framer with its timer: a pending flush timer fires.
FrameFairSpec == FrameSpec /\ WF_vars(FlushFire)

----------------------------------------------------------------------------
\* HidReader of unnamed/part_008, driven by the listeners of unnamed/part_001
\* and by the device.

\* The try block of start() succeeds (ok) or throws: the handle is opened,
\* or 'error' is emitted and a restart is scheduled.
TryStart(ok) ==
    /\ rdOpen' = ok
    /\ rdRetries' = IF ok THEN rdRetries ELSE rdRetries + 1

\* reader.start(), called by the listeners of device:connected and
\* device:reconnect.
ReaderStart ==
    /\ IF rdOpen
          THEN UNCHANGED <<rdOpen, rdRetries>>
          ELSE \E ok \in BOOLEAN :
                  /\ ~ok => rdRetries < MaxRetries
                  /\ TryStart(ok)
    /\ rdStopped' = FALSE
    /\ rdHalted' = FALSE
    /\ UNCHANGED <<rdBuffer, rdFlushTimer, rdTimers, rdScans, rdFed, rdJoined>>
    /\ UNCHANGED parserVars
    /\ UNCHANGED <<storeVars, senderVars, histVars, hidVars, valVars>>

\* A scheduled restart fires: start().
ReaderRetryFire ==
    /\ rdRetries > 0
    /\ IF rdOpen
          THEN /\ rdRetries' = rdRetries - 1
               /\ UNCHANGED rdOpen
          ELSE \E ok \in BOOLEAN :
                  /\ rdOpen' = ok
                  /\ rdRetries' = IF ok THEN rdRetries - 1 ELSE rdRetries
    /\ rdStopped' = FALSE
    /\ UNCHANGED rdHalted
    /\ UNCHANGED <<rdBuffer, rdFlushTimer, rdTimers, rdScans, rdFed, rdJoined>>
    /\ UNCHANGED parserVars
    /\ UNCHANGED <<storeVars, senderVars, histVars, hidVars, valVars>>

\* reader.stop(), called by the listener of device:disconnected and on
\* SIGINT.
ReaderStop ==
    /\ rdOpen' = FALSE
    /\ rdBuffer' = BufferAfterStop(rdOpen, rdBuffer)
    /\ rdStopped' = TRUE
    /\ rdHalted' = TRUE
    /\ UNCHANGED <<rdFlushTimer, rdTimers, rdRetries, rdScans, rdFed, rdJoined>>
    /\ UNCHANGED parserVars
    /\ UNCHANGED <<storeVars, senderVars, histVars, hidVars, valVars>>

\* The device emits 'error': 'error' is emitted, stop(), and a restart is
\* scheduled.
ReaderDeviceError ==
    /\ rdOpen
    /\ rdRetries < MaxRetries
    /\ rdOpen' = FALSE
    /\ rdBuffer' = BufferAfterStop(rdOpen, rdBuffer)
    /\ rdRetries' = rdRetries + 1
    /\ rdStopped' = FALSE
    /\ UNCHANGED rdHalted
    /\ UNCHANGED <<rdFlushTimer, rdTimers, rdScans, rdFed, rdJoined>>
    /\ UNCHANGED parserVars
    /\ UNCHANGED <<storeVars, senderVars, histVars, hidVars, valVars>>

\* The device emits 'data': onData(data).
ReaderOnData ==
    /\ rdOpen
    /\ \E data \in ReaderChunks :
        /\ Len(rdFed) + Len(data) <= MaxFed
        /\ rdFed' = rdFed \o data
        /\ LET clean == CleanChunk(data)
               r     == ReaderProcessBuffer(Accumulate(rdBuffer, clean))
           IN IF clean = <<>>
                 THEN UNCHANGED <<rdBuffer, rdFlushTimer, rdTimers, rdScans, rdJoined>>
                 ELSE /\ rdBuffer' = r.buffer
                      /\ rdFlushTimer' = r.arm
                      /\ rdTimers' = ArmTimer(r.buffer, ClearTimer(rdFlushTimer, rdTimers))
                      /\ rdScans' = rdScans \o r.lines
                      /\ rdJoined' = (rdJoined \/ (rdTimers > 0 /\ rdBuffer # <<>>))
    /\ rdStopped' = FALSE
    /\ UNCHANGED rdHalted
    /\ UNCHANGED <<rdOpen, rdRetries>>
    /\ UNCHANGED parserVars
    /\ UNCHANGED <<storeVars, senderVars, histVars, hidVars, valVars>>

\* A flush timeout of the reader fires: the residual is emitted and the
\* buffer emptied, this.flushTimer = undefined.
ReaderFlushFire ==
    /\ rdTimers > 0
    /\ rdTimers' = rdTimers - 1
    /\ rdFlushTimer' = FALSE
    /\ rdBuffer' = <<>>
    /\ rdScans' = IF rdBuffer # <<>> /\ ReaderCleanLine(rdBuffer) # <<>>
                     THEN Append(rdScans, ReaderCleanLine(rdBuffer)) ELSE rdScans
    /\ rdStopped' = FALSE
    /\ UNCHANGED rdHalted
    /\ UNCHANGED <<rdOpen, rdRetries, rdFed, rdJoined>>
    /\ UNCHANGED parserVars
    /\ UNCHANGED <<storeVars, senderVars, histVars, hidVars, valVars>>

ReaderNext ==
    \/ ReaderStart
    \/ ReaderRetryFire
    \/ ReaderStop
    \/ ReaderDeviceError
    \/ ReaderOnData
    \/ ReaderFlushFire

ReaderSpec == Init /\ [][ReaderNext]_vars

\* A build has one framer: parseHidData or the HidReader class.
ParserUnused == fed = <<>> /\ timers = 0 /\ ~flushed
ReaderUnused ==
    /\ ~rdOpen /\ ~rdStopped
    /\ rdRetries = 0 /\ rdTimers = 0
    /\ rdFed = <<>>

FramersNext ==
    \/ ReaderUnused /\ FrameNext
    \/ ParserUnused /\ ReaderNext

FramersSpec == Init /\ [][FramersNext]_vars

----------------------------------------------------------------------------
\* barCodeValidator.ts: a call of validateBarCode.

\* The validator keeps no state from one call to the next, so a run makes
\* one call.
Validate ==
    /\ ~vcalled
    /\ \E b \in Inputs :
        /\ vcalled' = TRUE
        /\ barcode' = b
        /\ validated' = ValidateBarCode(b).events
        /\ vthrew' = ValidateBarCode(b).threw
        /\ UNCHANGED <<upcE, upcA>>
        /\ UNCHANGED <<storeVars, senderVars, histVars, hidVars, frameVars>>

ValNext == Validate

ValSpec == Init /\ [][ValNext]_vars

\* A call of expandUpcEtoUpcA; like the validator it keeps no state, so a
\* run makes one call.
Expand ==
    /\ upcE = <<>>
    /\ \E u \in UpcEInputs :
        /\ upcE' = u
        /\ upcA' = ExpandUpcEtoUpcA(u)
    /\ UNCHANGED <<barcode, validated, vthrew, vcalled>>
    /\ UNCHANGED <<storeVars, senderVars, histVars, hidVars, frameVars>>

UpcNext == Expand

UpcSpec == Init /\ [][UpcNext]_vars

----------------------------------------------------------------------------
\* Properties of the delivery queue and the sender.

In(e, list) == \E i \in 1..Len(list) : list[i] = e
InFile(e)  == In(e, file)

\* e is in queue.json or in a write that is on its way to it.
Persisted(e) == InFile(e) \/ \E i \in 1..Len(wq) : In(e, wq[i].data)

\* A write of the sender's dequeueEvent() replaces queue.json in this step.
SenderWriteLands == wq # <<>> /\ Head(wq).who = "send" /\ wq' = Tail(wq)

\* No enqueueEvent or dequeueEvent call is between its start and its return.
NoUpdateInFlight ==
    /\ wq = <<>>
    /\ \A c \in Callers : qpc[c] # "idle" => qop[c] = "getFirst"

\* enqueueEvent(e) has returned to its caller.
Enqueued(e) == e < nextId /\ ~(qarg["app"] = e /\ qpc["app"] # "idle")

\* C1: every entry that a write of the sender's dequeueEvent takes out of
\* queue.json has been POSTed with a 2xx answer before, and the entry of a
\* failed POST is still in queue.json while the sender waits to retry it.
C1_RemovedOnlyAfterDelivery ==
    /\ [][SenderWriteLands =>
            \A e \in Entries : (InFile(e) /\ ~InFile(e)') => e \in delivered]_vars
    /\ [](spc \in {"backoff", "pause"} => Persisted(event))

\* C2: whenever no enqueueEvent or dequeueEvent call is in flight, also after
\* two of them have overlapped, queue.json holds the entries of the completed
\* enqueues minus the entries returned by the completed dequeues, in order.
C2_NoLostUpdate == NoUpdateInFlight => file = expect

\* C3: every entry whose enqueueEvent has returned is eventually POSTed with
\* a 2xx answer and is then no longer in queue.json.
C3_EventuallyDelivered ==
    \A e \in Entries : Enqueued(e) ~> (e \in delivered /\ ~InFile(e))


\* The oldest entry of a FIFO q and what is left without it.
Oldest(q) == IF q = <<>> THEN Undefined ELSE Head(q)
Rest(q)   == IF q = <<>> THEN <<>> ELSE Tail(q)

\* C4: the first getFirstEvent or dequeueEvent after a restart sees exactly
\* the entries of the completed enqueues that no completed dequeue has
\* returned, in insertion order, and returns the oldest of them.
C4_ReloadAfterRestart ==
    (restarted /\ qpc["app"] = "idle" /\ qop["app"] \in {"getFirst", "dequeue"})
        => (obs = obsExpect /\ qret["app"] = Oldest(obsExpect))

C4_Witness ==
    /\ restarted
    /\ qpc["app"] = "idle"
    /\ qop["app"] \in {"getFirst", "dequeue"}
    /\ Len(obs) >= 2

\* C5: while a POST of an entry is in flight, every entry enqueued before it
\* that is still in queue.json has been delivered; and the sender turns to
\* another entry only after the one at hand has been delivered.
C5_StrictOrder ==
    /\ [](spc = "post" =>
            \A e \in Entries : (e < event /\ InFile(e)) => e \in delivered)
    /\ [][(event # Undefined /\ event' # event) => event \in delivered']_vars

C5_Witness ==
    /\ spc = "post"
    /\ attempt > 0
    /\ \E e \in Entries : e > event /\ InFile(e)

\* C6: the circuit is open exactly after the third failed attempt in a row
\* on the entry at hand; while it is open the sender sits in the 60 s pause
\* with no POST and no queue call pending and the entry is still persisted;
\* when the circuit closes the same entry is POSTed again with both counters
\* at zero.
C6_CircuitBreaker ==
    /\ [](consecutiveFailures >= 3 => circuitOpen)
    /\ [](circuitOpen =>
            /\ spc = "pause"
            /\ timerMs = 60000
            /\ qpc["send"] = "idle"
            /\ attempt = 3
            /\ consecutiveFailures = 3
            /\ Persisted(event))
    /\ [][(circuitOpen /\ ~circuitOpen') =>
            /\ spc' = "post"
            /\ event' = event
            /\ attempt' = 0
            /\ consecutiveFailures' = 0]_vars

C6_Witness ==
    /\ circuitOpen
    /\ attempt = 3
    /\ InFile(event)
    /\ Len(file) >= 2

\* C7: a rejected queue call never leaves the interval callback ended with
\* running still true, the state in which every later tick returns at once.
C7_SenderKeepsRunning == ~(running /\ spc = "rejected")

\* C8: with the calls made one after the other, between calls queue.json is
\* the FIFO of the completed calls: enqueueEvent has put its entry last,
\* getFirstEvent has returned the oldest entry and changed nothing,
\* dequeueEvent has returned the oldest entry and removed exactly it.
C8_SequentialFifo ==
    qpc["app"] = "idle" =>
        /\ file = expect
        /\ qop["app"] = "enqueue" =>
              (expect # <<>> /\ expect[Len(expect)] = qarg["app"])
        /\ qop["app"] = "getFirst" =>
              (qret["app"] = Oldest(expect) /\ obs = expect /\ obsExpect = expect)
        /\ qop["app"] = "dequeue" =>
              (qret["app"] = Oldest(obsExpect) /\ expect = Rest(obsExpect))

C8_Witness ==
    /\ qpc["app"] = "idle"
    /\ qop["app"] = "dequeue"
    /\ qret["app"] = 1
    /\ file = <<2, 3>>

----------------------------------------------------------------------------
\* Properties of the device watcher.

\* The serial cached after the first i emitted events: that of the latest
\* device:connected among them.
RECURSIVE CachedAt(_)
CachedAt(i) ==
    IF i = 0 THEN NoSerial
    ELSE IF emitted[i].type = "device:connected" THEN emitted[i].dev.serialNumber
    ELSE CachedAt(i - 1)

\* C9: before the first event the watcher is not connected and has no
\* cached serial; the first event is device:connected for a matching device,
\* and right after it that device's serial is the cached one.
C9_FirstEventConnected ==
    /\ emitted = <<>> => (~isConnected /\ serialNumber = NoSerial)
    /\ emitted # <<>> =>
          (emitted[1].type = "device:connected" /\ Matches(emitted[1].dev))
    /\ Len(emitted) = 1 =>
          (isConnected /\ serialNumber = emitted[1].dev.serialNumber)

C9_Witness ==
    /\ Len(emitted) = 1
    /\ isConnected
    /\ serialNumber = "A"

Opens(t) == t \in {"device:connected", "device:reconnect"}

\* C11: every poll emits at most one event, also when enumerations overlap,
\* and the emitted events alternate: device:disconnected only right after
\* device:connected or device:reconnect, and these two only as the first
\* event or right after device:disconnected.
C11_OneEventAlternating ==
    /\ [][Len(emitted') <= Len(emitted) + 1]_vars
    /\ [](\A i \in 1..Len(emitted) :
            IF emitted[i].type = "device:disconnected"
               THEN i > 1 /\ Opens(emitted[i - 1].type)
               ELSE /\ Opens(emitted[i].type)
                    /\ i > 1 => emitted[i - 1].type = "device:disconnected")

C11_Witness ==
    /\ overlaps >= 2
    /\ Len(emitted) >= 3
    /\ emitted[2].type = "device:disconnected"
    /\ polls >= 1

\* C12: a poll whose enumeration throws leaves isConnected and the emitted
\* events as a poll that enumerates no matching device would leave them.
C12_ThrowIsNoDevice ==
    [][(threw' /\ polls' = polls - 1) =>
          LET o == Outcome(isConnected, serialNumber, currentPath, <<>>)
          IN isConnected' = o.conn /\ emitted' = emitted \o o.ev]_vars

\* C13: at most one device handle is open at any time, and none is open
\* once device:disconnected has been handled.
C13_OneOpenHandle ==
    /\ Cardinality(handles) <= 1
    /\ (emitted # <<>> /\ emitted[Len(emitted)].type = "device:disconnected")
          => handles = {}

----------------------------------------------------------------------------
\* Properties of the line framer.

\* The positions of the terminators in buf, and buf cut at them.
CRs(buf) == { i \in 1..Len(buf) : buf[i] = CARRIAGE_RETURN }

NthCR(buf, k) ==
    CHOOSE i \in CRs(buf) : Cardinality({ j \in CRs(buf) : j <= i }) = k

\* The k-th terminated segment of buf, without its terminator.
Segment(buf, k) ==
    SubSeq(buf, IF k = 1 THEN 1 ELSE NthCR(buf, k - 1) + 1, NthCR(buf, k) - 1)

\* What follows the last terminator of buf.
AfterLastCR(buf) ==
    IF CRs(buf) = {} THEN buf
    ELSE SubSeq(buf, NthCR(buf, Cardinality(CRs(buf))) + 1, Len(buf))

\* seg without its leading and trailing whitespace.
Strip(seg) ==
    LET idx == { i \in 1..Len(seg) : ~IsSpace(seg[i]) }
    IN IF idx = {} THEN <<>>
       ELSE SubSeq(seg, CHOOSE i \in idx : \A j \in idx : i <= j,
                        CHOOSE i \in idx : \A j \in idx : i >= j)

\* The lines of the terminated segments of buf that are not blank, in order.
SegLines(buf) ==
    SelectSeq([k \in 1..Cardinality(CRs(buf)) |-> Strip(Segment(buf, k))],
              LAMBDA l : l # <<>>)

\* The bytes of a line or buffer that are neither whitespace nor CR.
Letters(str) == SelectSeq(str, LAMBDA c : ~IsSpace(c))

RECURSIVE Flat(_)
Flat(ls) == IF ls = <<>> THEN <<>> ELSE Head(ls) \o Flat(Tail(ls))

\* a can be got from b by leaving bytes out.
RECURSIVE IsSubseq(_, _)
IsSubseq(a, b) ==
    IF a = <<>> THEN TRUE
    ELSE IF b = <<>> THEN FALSE
    ELSE IF Head(a) = Head(b) THEN IsSubseq(Tail(a), Tail(b))
    ELSE IsSubseq(a, Tail(b))

\* The lines of data fed as one chunk to a fresh framer, the flush included.
OneChunk(data) ==
    LET r == ParseHidData(<<>>, FALSE, data)
    IN r.lines \o ForceFlushBuffer(r.buffer).lines

\* C14: as long as no flush timer has fired between chunks and the kept
\* bytes fit under the ceiling, the lines emitted so far, completed by what
\* the flush emits, are the lines of the whole input fed as one chunk.
C14_ChunkInvariance ==
    (~early /\ Len(CleanChunk(fed)) <= MAX_BUFFER)
        => scans \o ForceFlushBuffer(buffer).lines = OneChunk(fed)

C14_Witness ==
    /\ ~early
    /\ flushed
    /\ Len(fed) > MaxChunk
    /\ Len(CleanChunk(fed)) <= MAX_BUFFER
    /\ scans = << <<65>>, <<66>> >>

\* C15: a call of parseHidData emits, in order, the line of every terminated
\* segment of the accumulated buffer that is not blank and nothing for a
\* blank one, and leaves what follows the last terminator; the emitted and
\* the buffered letters together use every fed letter at most once.
C15_SegmentsEmittedOnce ==
    /\ [][fed' # fed =>
            LET data == SubSeq(fed', Len(fed) + 1, Len(fed'))
                acc  == Cap(buffer \o CleanChunk(data))
            IN /\ scans' = scans \o SegLines(acc)
               /\ buffer' = AfterLastCR(acc)]_vars
    /\ [](IsSubseq(Letters(Flat(scans)) \o Letters(buffer),
                   Letters(CleanChunk(fed))))

C15_Witness ==
    /\ fed = <<65, 13, 32, 13>>
    /\ scans = << <<65>> >>
    /\ buffer = <<>>
    /\ ~flushed

\* C16: a residual without terminator always has a flush timer pending;
\* when the timer fires the residual is emitted as one line if it is not
\* blank, and the buffer is empty and no timer pending afterwards.
C16_FlushEmitsResidualOnce ==
    /\ [](flushTimer <=> buffer # <<>>)
    /\ [](CRs(buffer) = {})
    /\ [][(flushTimer /\ ~flushTimer' /\ fed' = fed) =>
            /\ scans' = scans \o (IF Strip(buffer) # <<>>
                                      THEN <<Strip(buffer)>> ELSE <<>>)
            /\ buffer' = <<>>]_vars

C16_Witness ==
    /\ flushed
    /\ ~early
    /\ CRs(fed) = {}
    /\ scans = << <<65, 32, 66>> >>
    /\ buffer = <<>>
    /\ ~flushTimer

----------------------------------------------------------------------------
\* Properties of the validator.

Symbologies ==
    {"Code128-A", "Code128-B", "Code128-C", "EAN-13", "EAN-8", "UPC-A", "UPC-E",
     "UNKNOWN"}

\* The event of the call that was made.
Result == validated[1]

\* C17: validateBarCode returns normally and emits exactly one event, which
\* carries the input as barcode with one symbology and one valid flag.
C17_OneEventNoThrow ==
    vcalled =>
        /\ ~vthrew
        /\ Len(validated) = 1
        /\ Result.barcode = barcode
        /\ Result.simbology \in Symbologies
        /\ Result.valid \in BOOLEAN

C17_Witness ==
    /\ vcalled
    /\ Len(validated) = 1
    /\ Result.simbology = "UNKNOWN"
    /\ Result.error = "Unsupported barcode format"
    /\ ~Result.valid

\* C18: an input that begins with ]A, ]B or ]C is classified Code128-A,
\* Code128-B or Code128-C respectively, before any other rule is applied.
C18_AimPrefixFirst ==
    (vcalled /\ Len(barcode) >= 2 /\ barcode[1] = 93 /\ barcode[2] \in {65, 66, 67})
        => Result.simbology =
              (IF barcode[2] = 65 THEN "Code128-A"
               ELSE IF barcode[2] = 66 THEN "Code128-B" ELSE "Code128-C")

\* The sum of the first n values of f.
RECURSIVE Sigma(_, _)
Sigma(f, n) == IF n = 0 THEN 0 ELSE f[n] + Sigma(f, n - 1)

\* The check digit of a string of digits: the digits before the last one
\* weighted 3, 1, 3, 1, ... from the rightmost of them.
Mod10Of(code) ==
    LET n == Len(code) - 1
        S == Sigma([i \in 1..n |->
                      (code[i] - 48) * (IF (n - i) % 2 = 0 THEN 3 ELSE 1)], n)
    IN (10 - (S % 10)) % 10

\* C19: an all-digit input of length 13 is classified EAN-13 and one of
\* length 12 UPC-A, and it is valid exactly when its last digit is the
\* MOD-10 check digit of the digits before it; 4006381333931 is valid.
C19_Mod10CheckDigit ==
    (vcalled /\ IsNumeric(barcode) /\ Len(barcode) \in {12, 13}) =>
        /\ Result.simbology = (IF Len(barcode) = 13 THEN "EAN-13" ELSE "UPC-A")
        /\ Result.valid <=> (barcode[Len(barcode)] - 48 = Mod10Of(barcode))
        /\ barcode = Str(<<4, 0, 0, 6, 3, 8, 1, 3, 3, 3, 9, 3, 1>>) => Result.valid

C19_Witness ==
    /\ vcalled
    /\ barcode = Str(<<4, 0, 0, 6, 3, 8, 1, 3, 3, 3, 9, 3, 1>>)
    /\ Result.simbology = "EAN-13"
    /\ Result.valid

\* code with its last digit replaced by d, and what the validator reports
\* for it.
WithLast(code, d) == [code EXCEPT ![Len(code)] = d + 48]
Altered(code, d) == ValidateBarCode(WithLast(code, d)).events[1]
OtherDigits(code) == (0..9) \ {code[Len(code)] - 48}

\* C20 as claimed: replacing the check digit of a valid EAN-13, EAN-8 or
\* UPC-A code by any other digit gives an input that is reported invalid.
C20_CheckDigitFlips ==
    (vcalled /\ Result.valid /\ Result.simbology \in {"EAN-13", "EAN-8", "UPC-A"})
        => \A d \in OtherDigits(barcode) : ~Altered(barcode, d).valid

\* C20 amended: replacing the check digit of a valid EAN-13 or UPC-A code
\* by any other digit gives an input of the same symbology that is reported
\* invalid; for a valid EAN-8 code it gives an input that is classified
\* UPC-E or Code128-C and reported valid.
C20_CheckDigitFlipsLongCodes ==
    (vcalled /\ Result.valid /\ Result.simbology \in {"EAN-13", "EAN-8", "UPC-A"}) =>
        \A d \in OtherDigits(barcode) :
            /\ Result.simbology \in {"EAN-13", "UPC-A"} =>
                  /\ ~Altered(barcode, d).valid
                  /\ Altered(barcode, d).simbology = Result.simbology
            /\ Result.simbology = "EAN-8" =>
                  /\ Altered(barcode, d).valid
                  /\ Altered(barcode, d).simbology \in {"UPC-E", "Code128-C"}

C20_Witness ==
    /\ vcalled
    /\ barcode = Str(<<0, 3, 6, 0, 0, 0, 2, 9, 1, 4, 5, 2>>)
    /\ Result.simbology = "UPC-A"
    /\ Result.valid

\* The expansion-digit bucket of a UPC-E string: 0 for the digits 0..2, 3, 4,
\* and 5 for the digits 5..9.
Bucket(u) ==
    LET exp == u[7] - 48
    IN IF exp <= 2 THEN 0 ELSE IF exp = 3 THEN 3 ELSE IF exp = 4 THEN 4 ELSE 5

\* The UPC-E strings that agree with u in the number-system digit, the first
\* two manufacturer digits and the check digit, which every bucket copies to
\* the places 1, 2, 3 and 12.
Siblings(u) ==
    { [u EXCEPT ![4] = m3 + 48, ![5] = m4 + 48, ![6] = m5 + 48, ![7] = exp + 48] :
        m3 \in 0..MaxMfr, m4 \in 0..MaxMfr, m5 \in 0..MaxMfr, exp \in 0..9 }

\* The shape the expansion digit stands for: a manufacturer code that ends
\* in 00 with third digit 3..9 for 3, in 0 with fourth digit not 0 for 4,
\* and a last product digit other than 0 for 5..9.
Canonical(u) ==
    \/ Bucket(u) = 0
    \/ Bucket(u) = 3 /\ u[4] - 48 > 2
    \/ Bucket(u) = 4 /\ u[5] # 48
    \/ Bucket(u) = 5 /\ u[6] # 48

\* The expansion is a string of twelve digits that keeps the first three
\* digits and the check digit of its argument in place.
Expanded12 ==
    /\ Len(upcA) = 12
    /\ IsNumeric(upcA)
    /\ upcA[1] = upcE[1] /\ upcA[2] = upcE[2] /\ upcA[3] = upcE[3]
    /\ upcA[12] = upcE[8]

\* C21 as claimed: the expansion of an 8-digit string that starts with 0 or
\* 1 has twelve digits, keeps the number-system digit first and the check
\* digit last, and no string of another bucket expands to the same code.
C21_ExpansionKeepsBucket ==
    upcE # <<>> =>
        /\ Expanded12
        /\ \A v \in Siblings(upcE) :
              Bucket(v) # Bucket(upcE) => ExpandUpcEtoUpcA(v) # upcA

\* C21 amended: the expansion has twelve digits and keeps the number-system
\* digit first and the check digit last; no string of another bucket that
\* has the shape its expansion digit stands for expands to the code of a
\* string that has the shape of its own.
C21_ExpansionKeepsCanonicalBucket ==
    upcE # <<>> =>
        /\ Expanded12
        /\ Canonical(upcE) =>
              \A v \in Siblings(upcE) :
                  (Canonical(v) /\ Bucket(v) # Bucket(upcE))
                      => ExpandUpcEtoUpcA(v) # upcA

C21_Witness ==
    /\ upcE = Str(<<0, 7, 0, 3, 1, 2, 3, 9>>)
    /\ Canonical(upcE)
    /\ upcA = Str(<<0, 7, 0, 3, 0, 0, 0, 0, 0, 1, 2, 9>>)

----------------------------------------------------------------------------
\* Properties of the pipeline from the framer to the delivery queue.

\* C22: every line emitted by the framer is passed to the validator and the
\* result of its validation is enqueued in the delivery queue: the i-th
\* emitted line is followed by an i-th validation event and an i-th
\* completed enqueueEvent.
C22_ScansValidatedAndEnqueued ==
    \A i \in 1..MaxEntries :
        (Len(scans) >= i) ~> (Len(validated) >= i /\ Enqueued(i))

----------------------------------------------------------------------------
\* Properties of the drain loop.

\* C23: at most one interval callback is inside the drain loop, and that is
\* so exactly while running is set; a tick that finds running set starts no
\* loop and leaves the queue, the pending POST and the pending delay alone.
C23_SingleDrainLoop ==
    /\ [](loops <= 1)
    /\ [](running <=> loops = 1)
    /\ [][(running /\ ~skipped /\ skipped') =>
            UNCHANGED <<storeVars, running, circuitOpen, consecutiveFailures,
                        spc, event, attempt, timerMs, loops>>]_vars

C23_Witness ==
    /\ skipped
    /\ loops = 1
    /\ spc = "pause"
    /\ delivered # {}

\* C24: the consecutive-failure counter goes up only when the entry at hand
\* has exhausted its retry ceiling, that is with the third failed attempt of
\* its attempt cycle; a failed attempt below the ceiling leaves it as it is.
C24_CountsExhaustedCycles ==
    [][consecutiveFailures' > consecutiveFailures
          => attempt + 1 >= MAX_RETRIES]_vars

----------------------------------------------------------------------------
\* More properties of the device watcher.

\* The device:connected and device:reconnect events emitted so far.
Arrivals ==
    { i \in 1..Len(emitted) :
        emitted[i].type \in {"device:connected", "device:reconnect"} }

\* C27: saveDevice has been called once for every device:connected and
\* every device:reconnect event that has been emitted.
C27_SavedOnEveryArrival == saveCalls = Cardinality(Arrivals)

\* C28: when reader.read has thrown in the listener of device:connected or
\* device:reconnect, the open is attempted again by a later poll while the
\* device is still present (or the recorded event sequence is full).
C28_FailedOpenRetried ==
    (openFailed /\ isConnected)
        ~> (~openFailed \/ ~isConnected \/ Len(emitted) >= MaxEmitted)

----------------------------------------------------------------------------
\* Properties of the HidReader class and of the flush timers.

\* C29: right after stop() has returned the device handle is closed, the
\* buffer is empty and no flush timeout is pending.
C29_StopLeavesNothingPending ==
    rdStopped => (~rdOpen /\ rdBuffer = <<>> /\ rdTimers = 0)

\* The bytes appended to the sequence old that give the sequence new.
Added(old, new) == SubSeq(new, Len(old) + 1, Len(new))

NoCR(str) == \A i \in 1..Len(str) : str[i] # CARRIAGE_RETURN

\* C30: each framer has at most one flush timeout pending, the one its
\* flushTimer holds; and a call that appends retained bytes without a CR
\* while a timeout is pending emits nothing and leaves one timeout pending
\* for the residual joined with the new bytes.
C30_OneFlushTimer ==
    /\ [](timers <= 1 /\ (flushTimer <=> timers = 1))
    /\ [](rdTimers <= 1 /\ (rdFlushTimer <=> rdTimers = 1))
    /\ [][(/\ timers = 1
            /\ CleanChunk(Added(fed, fed')) # <<>>
            /\ NoCR(Added(fed, fed')))
           => /\ scans' = scans
              /\ timers' = 1
              /\ buffer' = Cap(buffer \o CleanChunk(Added(fed, fed')))]_vars
    /\ [][(/\ rdTimers = 1
            /\ CleanChunk(Added(rdFed, rdFed')) # <<>>
            /\ NoCR(Added(rdFed, rdFed')))
           => /\ rdScans' = rdScans
              /\ rdTimers' = 1
              /\ rdBuffer' = Cap(rdBuffer \o CleanChunk(Added(rdFed, rdFed')))]_vars

C30_Witness ==
    /\ rdJoined
    /\ rdTimers = 1
    /\ rdBuffer = <<65, 100, 65>>
    /\ rdScans = <<>>

----------------------------------------------------------------------------
\* Properties of the buffer ceiling and of the emitted lines.

\* The newest bytes of str that fit under the ceiling.
Newest(str) ==
    IF Len(str) > MAX_BUFFER
        THEN SubSeq(str, Len(str) - MAX_BUFFER + 1, Len(str)) ELSE str

\* C31: the buffer of each framer never holds more than MAX_BUFFER bytes,
\* and a call that appends retained bytes leaves in it the newest MAX_BUFFER
\* bytes, at most, of what follows the last CR of the buffer joined with the
\* appended bytes: when the ceiling is exceeded the oldest bytes are the
\* ones that go.
C31_BufferCeiling ==
    /\ [](Len(buffer) <= MAX_BUFFER /\ Len(rdBuffer) <= MAX_BUFFER)
    /\ [][CleanChunk(Added(fed, fed')) # <<>>
           => buffer' = Newest(AfterLastCR(buffer \o CleanChunk(Added(fed, fed'))))]_vars
    /\ [][CleanChunk(Added(rdFed, rdFed')) # <<>>
           => rdBuffer' = Newest(AfterLastCR(rdBuffer \o CleanChunk(Added(rdFed, rdFed'))))]_vars

\* Four retained bytes without a CR have been fed and the oldest has gone.
C31_Witness ==
    /\ fed = <<65, 66, 66, 65>>
    /\ ~flushed
    /\ buffer = <<66, 66, 65>>

\* C32: in both framers the lines a call emits are the stripped non-blank
\* segments of the retained bytes, and the line a flush timeout emits is the
\* stripped residual: no byte of a scan other than whitespace is added,
\* removed or altered.
C32_LinesAreSegments ==
    /\ [][CleanChunk(Added(fed, fed')) # <<>>
           => scans' = scans \o SegLines(Cap(buffer \o CleanChunk(Added(fed, fed'))))]_vars
    /\ [][(fed' = fed /\ scans' # scans)
           => scans' = Append(scans, Strip(buffer))]_vars
    /\ [][CleanChunk(Added(rdFed, rdFed')) # <<>>
           => rdScans' = rdScans \o SegLines(rdBuffer \o CleanChunk(Added(rdFed, rdFed')))]_vars
    /\ [][(rdFed' = rdFed /\ rdScans' # rdScans)
           => rdScans' = Append(rdScans, Strip(rdBuffer))]_vars

----------------------------------------------------------------------------
\* Further properties of the validator.

\* The UPC-A code a UPC-E string stands for: the manufacturer and product
\* digits are spread around a run of zeros whose place the expansion digit
\* gives.
UpcAOf(u) ==
    LET exp  == u[7] - 48
        zero == [i \in 1..(IF exp <= 2 THEN 4 ELSE IF exp <= 4 THEN 5 ELSE 4) |-> 48]
        mfr  == IF exp <= 2 THEN <<u[2], u[3], u[7]>>
                ELSE IF exp = 3 THEN <<u[2], u[3], u[4]>>
                ELSE IF exp = 4 THEN <<u[2], u[3], u[4], u[5]>>
                ELSE <<u[2], u[3], u[4], u[5], u[6]>>
        prod == IF exp <= 2 THEN <<u[4], u[5], u[6]>>
                ELSE IF exp = 3 THEN <<u[5], u[6]>>
                ELSE IF exp = 4 THEN <<u[6]>>
                ELSE <<u[7]>>
    IN <<u[1]>> \o mfr \o zero \o prod \o <<u[8]>>

\* The last digit of code is the MOD-10 check digit of the digits before it.
Mod10Holds(code) == code[Len(code)] - 48 = Mod10Of(code)

\* C33: an all-digit input of length 8 that starts with 0 or 1 is classified
\* UPC-E exactly when the last digit of its 12-digit UPC-A expansion is the
\* MOD-10 check digit of that expansion; otherwise it is EAN-8 when its own
\* check digit is right and Code128-C when it is not; 01234565, which
\* passes both checks, is UPC-E.
C33_UpcEBeforeEan8 ==
    (vcalled /\ IsNumeric(barcode) /\ Len(barcode) = 8 /\ barcode[1] \in {48, 49}) =>
        /\ Len(UpcAOf(barcode)) = 12
        /\ Result.simbology = "UPC-E" <=> Mod10Holds(UpcAOf(barcode))
        /\ ~Mod10Holds(UpcAOf(barcode)) =>
              Result.simbology = (IF Mod10Holds(barcode) THEN "EAN-8" ELSE "Code128-C")
        /\ barcode = Str(<<0, 1, 2, 3, 4, 5, 6, 5>>) => Result.simbology = "UPC-E"

C33_Witness ==
    /\ vcalled
    /\ barcode = Str(<<0, 1, 2, 3, 4, 5, 6, 5>>)
    /\ Mod10Holds(barcode)
    /\ Mod10Holds(UpcAOf(barcode))
    /\ Result.simbology = "UPC-E"

\* The symbols of a raw-framed input between its start and its checksum
\* symbol, and its checksum symbol.
RawPayload(b) == SubSeq(b, 2, Len(b) - 2)
RawCheck(b) == b[Len(b) - 1]

\* A character stands for the Code128 symbol value 0..102 that is its code
\* less 32; in set C the payload is read as pairs of digits.
HasValue(ch) == ch - 32 \in 0..102

PairsOf(pl) ==
    [i \in 1..(Len(pl) \div 2) |-> (pl[2 * i - 1] - 48) * 10 + (pl[2 * i] - 48)]

RawValues(b) ==
    IF b[1] = 105 THEN PairsOf(RawPayload(b))
    ELSE [i \in 1..Len(RawPayload(b)) |-> RawPayload(b)[i] - 32]

RawValuesDefined(b) ==
    /\ HasValue(RawCheck(b))
    /\ IF b[1] = 105
          THEN IsNumeric(RawPayload(b)) /\ Len(RawPayload(b)) % 2 = 0
          ELSE \A i \in 1..Len(RawPayload(b)) : HasValue(RawPayload(b)[i])

\* (start + sum over i of i * v_i) mod 103
Mod103Of(b) ==
    LET v == RawValues(b)
    IN (b[1] + Sigma([i \in 1..Len(v) |-> i * v[i]], Len(v))) % 103

\* C34: an input of length 4 or more that starts with the code 103, 104 or
\* 105 and ends with the code 106 is reported Code128-A, -B or -C by its
\* start code, and it is valid exactly when its symbols have values and
\* (start + sum of i * v_i) mod 103 is the value of its checksum symbol.
C34_RawMod103 ==
    (/\ vcalled
     /\ Len(barcode) >= 4
     /\ barcode[1] \in {103, 104, 105}
     /\ barcode[Len(barcode)] = 106) =>
        /\ Result.simbology =
              (IF barcode[1] = 103 THEN "Code128-A"
               ELSE IF barcode[1] = 104 THEN "Code128-B" ELSE "Code128-C")
        /\ Result.valid <=>
              (RawValuesDefined(barcode) /\ Mod103Of(barcode) = RawCheck(barcode) - 32)

----------------------------------------------------------------------------
\* Further properties of the sender.

\* C35: consecutiveFailures always equals attempt and is at most MAX_RETRIES,
\* and below it whenever a POST is outstanding; and the drain loop leaves
\* the entry it works on only after the dequeue that follows the 2xx answer
\* to the POST of that entry.
C35_FailuresFollowAttempt ==
    /\ [](consecutiveFailures = attempt)
    /\ [](consecutiveFailures <= MAX_RETRIES)
    /\ [](spc = "post" => consecutiveFailures < MAX_RETRIES /\ event # Undefined)
    /\ [][(event # Undefined /\ event' # event)
            => (spc = "dequeue" /\ event \in delivered /\ event' = Undefined)]_vars

\* After three failed attempts and the circuit pause the same undelivered
\* entry is POSTed again with both counters at zero.
C35_Witness ==
    /\ spc = "post"
    /\ waited = CIRCUIT_PAUSE
    /\ event # Undefined
    /\ event \notin delivered
    /\ attempt = 0
    /\ consecutiveFailures = 0

----------------------------------------------------------------------------
\* Further properties of the device watcher.

\* C36: once the cancel function has been called no event is emitted and
\* the connection state does not change any more.
C36_QuietAfterCancel ==
    [][~intervalId =>
          /\ emitted' = emitted
          /\ isConnected' = isConnected
          /\ serialNumber' = serialNumber]_vars

\* C37: fed the same poll results, HidDevice.connect has emitted the same
\* events as listHidDevices.
C37_SameEventsAsModule == hdEmitted = emitted

\* The event a step has emitted.
Latest(evs) == evs[Len(evs)]

\* C38: device:reconnect is emitted only for a device whose serial number is
\* the cached one, which it leaves as it is; a matching device found while
\* disconnected whose serial number differs from the cached one is reported
\* by device:connected, and its serial number is the cached one afterwards.
C38_ReconnectOnlySameSerial ==
    [][Len(emitted') = Len(emitted) + 1 =>
          /\ Latest(emitted').type = "device:reconnect" =>
                /\ Latest(emitted').dev.serialNumber = serialNumber
                /\ serialNumber' = serialNumber
          /\ (/\ ~isConnected
              /\ Latest(emitted').type # "device:disconnected"
              /\ Latest(emitted').dev.serialNumber # serialNumber) =>
                /\ Latest(emitted').type = "device:connected"
                /\ serialNumber' = Latest(emitted').dev.serialNumber]_vars

\* Device A was connected and unplugged, then device B was found.
C38_Witness ==
    /\ Len(emitted) = 3
    /\ emitted[1].type = "device:connected"
    /\ emitted[1].dev.serialNumber = "A"
    /\ emitted[2].type = "device:disconnected"
    /\ emitted[3].type = "device:connected"
    /\ emitted[3].dev.serialNumber = "B"
    /\ serialNumber = "B"

----------------------------------------------------------------------------
\* Further properties of the HidReader class.

\* C39: from a stop() called by the listener of device:disconnected until
\* the next start() called by a listener, the reader holds no open device
\* handle: a restart scheduled earlier does not reopen the device.
C39_NoReopenAfterStop == rdHalted => ~rdOpen

----------------------------------------------------------------------------
\* The verdicts of the validator as a whole.

\* C40: an input is reported invalid only when it is classified EAN-13,
\* UPC-A or UNKNOWN or is raw-framed; in particular every all-digit input of
\* length 8 is reported valid; and a result that carries an error message
\* is reported invalid.
C40_InvalidOnlyChecked ==
    vcalled =>
        /\ ~Result.valid =>
              \/ Result.simbology \in {"EAN-13", "UPC-A", "UNKNOWN"}
              \/ IsRawCode128Payload(barcode)
        /\ (IsNumeric(barcode) /\ Len(barcode) = 8) => Result.valid
        /\ Result.error # NoError => ~Result.valid

\* 01234560 fails the UPC-E and the EAN-8 check and is a valid Code128-C.
C40_Witness ==
    /\ vcalled
    /\ barcode = Str(<<0, 1, 2, 3, 4, 5, 6, 0>>)
    /\ ~Mod10Holds(barcode)
    /\ ~Mod10Holds(UpcAOf(barcode))
    /\ Result.simbology = "Code128-C"
    /\ Result.valid
    /\ Result.error = NoError

====
